---- MODULE Spec2Model ----
(***************************************************************************)
(* Model of the excel-report-generator: the cell classifiers of            *)
(* reports/performance.py and reports/parul_weekly.py, the pivot tables    *)
(* built by the three report generators, and the delimited-text loader     *)
(* read_csv_with_encoding.                                                 *)
(*                                                                         *)
(* Text is modelled as a sequence of one-character strings, so that        *)
(* str(), strip(), upper(), replace('%', '') and float() are computed      *)
(* character by character.  Numbers are exact decimals m / 10^k.           *)
(***************************************************************************)
EXTENDS Integers, Sequences, FiniteSets, TLC

VARIABLES
    pc,        \* position of the run: "start", "classified", "generated", ...
    cell,      \* the cell handed to the classifiers
    labels,    \* what the four classifiers returned for cell
    table,     \* the loaded table: a sequence of rows
    report,    \* the requested report: participation / performance / weekly
    pivots,    \* the pivot tables the generator produced
    file,      \* what pd.read_csv does on the file under each strategy
    peek,      \* TRUE when the load is a header peek (nrows = 1)
    tried,     \* the strategies attempted so far, in order
    loaded,    \* result of the load: "none", "table", "empty" or "error"
    source,    \* the input file: declared extension, sniffed type, workbook view
    run,       \* what a generator or the upload handler did with source
    content,   \* the leading bytes of a file handed to detect_file_type
    kind,      \* what detect_file_type returned for content
    headers,   \* the header row (df.columns) handed to the column resolver
    roles      \* the columns the resolver found for each role

vars == <<pc, cell, labels, table, report, pivots, file, peek, tried, loaded,
          source, run, content, kind, headers, roles>>

----------------------------------------------------------------------------
(* Bounds of the model.                                                    *)

MaxLen == 3        \* longest text cell drawn from Alphabet
MaxPct == 101      \* largest whole part of a numeric cell
MaxRows == 2       \* most rows of a table
MaxPad == 48       \* most padding bytes between the start of a content and its marker
MaxExtra == 2      \* most headers put into a header row beside those of its frame
MaxHeaders == 3    \* most headers of a header row given to a single column lookup

----------------------------------------------------------------------------
(* Text helpers: Python's str methods on sequences of characters.          *)

Digits == <<"0", "1", "2", "3", "4", "5", "6", "7", "8", "9">>

IsDigit(c) == \E i \in 1..10 : Digits[i] = c

DigitVal(c) == (CHOOSE i \in 1..10 : Digits[i] = c) - 1

DigitChar(d) == Digits[d + 1]

IsSpace(c) == c = " "

RECURSIVE LStrip(_)
LStrip(s) ==
    IF s # <<>> /\ IsSpace(Head(s)) THEN LStrip(Tail(s)) ELSE s

RECURSIVE RStrip(_)
RStrip(s) ==
    IF s # <<>> /\ IsSpace(s[Len(s)]) THEN RStrip(SubSeq(s, 1, Len(s) - 1)) ELSE s

\* str.strip()
Strip(s) == RStrip(LStrip(s))

LowerLetters ==
    <<"a", "b", "c", "d", "e", "f", "g", "h", "i", "j", "k", "l", "m",
      "n", "o", "p", "q", "r", "s", "t", "u", "v", "w", "x", "y", "z">>

UpperLetters ==
    <<"A", "B", "C", "D", "E", "F", "G", "H", "I", "J", "K", "L", "M",
      "N", "O", "P", "Q", "R", "S", "T", "U", "V", "W", "X", "Y", "Z">>

UpperChar(c) ==
    IF \E i \in 1..Len(LowerLetters) : LowerLetters[i] = c
    THEN UpperLetters[CHOOSE i \in 1..Len(LowerLetters) : LowerLetters[i] = c]
    ELSE c

LowerChar(c) ==
    IF \E i \in 1..Len(UpperLetters) : UpperLetters[i] = c
    THEN LowerLetters[CHOOSE i \in 1..Len(UpperLetters) : UpperLetters[i] = c]
    ELSE c

\* str.upper() and str.lower()
Upper(s) == [i \in 1..Len(s) |-> UpperChar(s[i])]

Lower(s) == [i \in 1..Len(s) |-> LowerChar(s[i])]

\* sub in s
Contains(s, sub) ==
    \E i \in 0..(Len(s) - Len(sub)) : SubSeq(s, i + 1, i + Len(sub)) = sub

\* s.endswith(sub)
EndsWith(s, sub) ==
    Len(sub) <= Len(s) /\ SubSeq(s, Len(s) - Len(sub) + 1, Len(s)) = sub

\* s.rfind(sub): the last index (from 0) where sub starts in s, -1 if none
RFind(s, sub) ==
    IF Contains(s, sub)
    THEN CHOOSE i \in 0..(Len(s) - Len(sub)) :
            /\ SubSeq(s, i + 1, i + Len(sub)) = sub
            /\ \A j \in (i + 1)..(Len(s) - Len(sub)) : SubSeq(s, j + 1, j + Len(sub)) # sub
    ELSE 0 - 1

NotPct(c) == c # "%"

\* str.replace('%', '')
RemovePct(s) == SelectSeq(s, NotPct)

RECURSIVE Pow10(_)
Pow10(k) == IF k = 0 THEN 1 ELSE 10 * Pow10(k - 1)

RECURSIVE DigitsToNat(_)
DigitsToNat(s) ==
    IF s = <<>> THEN 0
    ELSE 10 * DigitsToNat(SubSeq(s, 1, Len(s) - 1)) + DigitVal(s[Len(s)])

RECURSIVE NatToDigits(_)
NatToDigits(n) ==
    IF n < 10 THEN <<DigitChar(n)>>
    ELSE Append(NatToDigits(n \div 10), DigitChar(n % 10))

AllDigits(s) == \A i \in 1..Len(s) : IsDigit(s[i])

----------------------------------------------------------------------------
(* Cell values.  A cell of a loaded table is null (None / NaN / NaT), an   *)
(* integer, a float (val counts hundredths), a text or a date.             *)

NullCell == [kind |-> "null", text |-> <<>>, val |-> 0]

TextCell(s) == [kind |-> "str", text |-> s, val |-> 0]

IntCell(n) == [kind |-> "int", text |-> <<>>, val |-> n]

FloatCell(h) == [kind |-> "float", text |-> <<>>, val |-> h]

DateCell == [kind |-> "date", text |-> <<>>, val |-> 0]

\* pd.isna(value)
IsNA(c) == c.kind = "null"

Abs(n) == IF n < 0 THEN 0 - n ELSE n

SignChars(n) == IF n < 0 THEN <<"-">> ELSE <<>>

\* the digits repr() prints after the decimal point of a float with hundredths h
FracChars(h) ==
    LET f == Abs(h) % 100 IN
    IF f % 10 = 0 THEN <<DigitChar(f \div 10)>>
    ELSE <<DigitChar(f \div 10), DigitChar(f % 10)>>

\* str(value)
StrOf(c) ==
    CASE c.kind = "str" -> c.text
      [] c.kind = "int" -> SignChars(c.val) \o NatToDigits(Abs(c.val))
      [] c.kind = "float" ->
            SignChars(c.val) \o NatToDigits(Abs(c.val) \div 100) \o <<".">> \o FracChars(c.val)
      [] c.kind = "date" ->
            <<"2", "0", "2", "4", "-", "0", "1", "-", "1", "5", " ",
              "0", "0", ":", "0", "0", ":", "0", "0">>
      [] OTHER -> <<"n", "a", "n">>

----------------------------------------------------------------------------
(* float(text): surrounding blanks are dropped, then an optional sign and  *)
(* either inf / infinity / nan or digits with at most one decimal point.   *)
(* ok = FALSE stands for the ValueError float() raises.  Exponents and     *)
(* digit-group underscores are not part of the modelled texts.             *)

NoFloat == [ok |-> FALSE, kind |-> "none", neg |-> FALSE, m |-> 0, k |-> 0]

PointAt(s) ==
    IF \E i \in 1..Len(s) : s[i] = "."
    THEN CHOOSE i \in 1..Len(s) : s[i] = "." /\ \A j \in 1..(i - 1) : s[j] # "."
    ELSE 0

ParseDecimal(body, neg) ==
    LET p == PointAt(body)
        whole == IF p = 0 THEN body ELSE SubSeq(body, 1, p - 1)
        frac == IF p = 0 THEN <<>> ELSE SubSeq(body, p + 1, Len(body))
    IN  IF AllDigits(whole) /\ AllDigits(frac) /\ Len(whole) + Len(frac) > 0
        THEN [ok |-> TRUE, kind |-> "fin", neg |-> neg,
              m |-> DigitsToNat(whole \o frac), k |-> Len(frac)]
        ELSE NoFloat

PyFloat(s) ==
    LET t == Strip(s)
        signed == t # <<>> /\ Head(t) \in {"+", "-"}
        neg == t # <<>> /\ Head(t) = "-"
        body == IF signed THEN Tail(t) ELSE t
        low == Lower(body)
    IN  IF low = <<"i", "n", "f">> \/ low = <<"i", "n", "f", "i", "n", "i", "t", "y">>
        THEN [ok |-> TRUE, kind |-> "inf", neg |-> neg, m |-> 0, k |-> 0]
        ELSE IF low = <<"n", "a", "n">>
        THEN [ok |-> TRUE, kind |-> "nan", neg |-> neg, m |-> 0, k |-> 0]
        ELSE ParseDecimal(body, neg)

Signed(p) == IF p.neg THEN 0 - p.m ELSE p.m

\* p > n for a whole number n (every comparison with NaN is false)
GreaterThan(p, n) ==
    CASE p.kind = "nan" -> FALSE
      [] p.kind = "inf" -> ~p.neg
      [] OTHER -> Signed(p) > n * Pow10(p.k)

\* p >= c / 100
AtLeastHundredths(p, c) ==
    CASE p.kind = "nan" -> FALSE
      [] p.kind = "inf" -> ~p.neg
      [] OTHER -> Signed(p) * 100 >= c * Pow10(p.k)

\* score / 100.0
DivideBy100(p) ==
    IF p.kind = "fin" THEN [p EXCEPT !.k = p.k + 2] ELSE p

----------------------------------------------------------------------------
(* The classifiers.  Raised stands for an exception leaving the function.  *)

Raised == "RAISED"

PerformanceLabels ==
    {"Good", "Satisfactory", "Need Attention", "Intervention", "Not Attended"}

WeeklyLabels ==
    {"Good (75%+)", "Satisfactory (50% - 75%)", "Needs Attention (25% - 50%)",
     "Intervention (0% - 25%)", "Not Started", "Invalid Score"}

PortalLabels == {"Activated", "Not Activated"}

AttemptLabels == {"No Attempt", "Unsuccessful Attempt", "Successful Attempt"}

\* ['NA', 'N/A', '-', 'NULL', 'NONE'] of performance.py
SentinelTexts ==
    {<<"N", "A">>, <<"N", "/", "A">>, <<"-">>, <<"N", "U", "L", "L">>, <<"N", "O", "N", "E">>}

\* the tiers of performance.py with >= in place of > (a boundary slip)
categorize_performance_ge(value) ==
    IF IsNA(value) THEN "Not Attended"
    ELSE LET value_str == Strip(StrOf(value)) IN
         IF value_str = <<>> \/ Upper(value_str) \in SentinelTexts THEN "Not Attended"
         ELSE LET num_value == PyFloat(Strip(RemovePct(value_str))) IN
              IF ~num_value.ok THEN "Not Attended"
              ELSE IF AtLeastHundredths(num_value, 7500) THEN "Good"
              ELSE IF AtLeastHundredths(num_value, 5000) THEN "Satisfactory"
              ELSE IF AtLeastHundredths(num_value, 2500) THEN "Need Attention"
              ELSE "Intervention"

\* performance.py _categorize_performance
categorize_performance(value) ==
    IF IsNA(value) THEN "Not Attended"
    ELSE LET value_str == Strip(StrOf(value)) IN
         IF value_str = <<>> \/ Upper(value_str) \in SentinelTexts THEN "Not Attended"
         ELSE LET num_value == PyFloat(Strip(RemovePct(value_str))) IN
              IF ~num_value.ok THEN "Not Attended"        \* except (ValueError, TypeError)
              ELSE IF GreaterThan(num_value, 75) THEN "Good"
              ELSE IF GreaterThan(num_value, 50) THEN "Satisfactory"
              ELSE IF GreaterThan(num_value, 25) THEN "Need Attention"
              ELSE "Intervention"

\* the weekly tiers given a parsed score (after the optional division)
WeeklyTier(score) ==
    IF AtLeastHundredths(score, 75) THEN "Good (75%+)"
    ELSE IF AtLeastHundredths(score, 50) THEN "Satisfactory (50% - 75%)"
    ELSE IF AtLeastHundredths(score, 25) THEN "Needs Attention (25% - 50%)"
    ELSE IF AtLeastHundredths(score, 0) THEN "Intervention (0% - 25%)"
    ELSE "Invalid Score"

\* parul_weekly.py with the division by 100 for scores above 10, not above 1
weekly_categorize_performance_div10(value) ==
    IF IsNA(value) THEN "Not Started"
    ELSE LET value_str == RemovePct(Strip(StrOf(value))) IN
         IF value_str = <<>> \/ value_str = <<"-">> THEN "Not Started"
         ELSE LET parsed == PyFloat(value_str) IN
              IF ~parsed.ok THEN "Invalid Score"
              ELSE WeeklyTier(IF GreaterThan(parsed, 10) THEN DivideBy100(parsed) ELSE parsed)

\* parul_weekly.py without the division by 100 of scores above 1
weekly_categorize_performance_nodiv(value) ==
    IF IsNA(value) THEN "Not Started"
    ELSE LET value_str == RemovePct(Strip(StrOf(value))) IN
         IF value_str = <<>> \/ value_str = <<"-">> THEN "Not Started"
         ELSE LET parsed == PyFloat(value_str) IN
              IF ~parsed.ok THEN "Invalid Score"
              ELSE WeeklyTier(parsed)

\* parul_weekly.py without its except clause: the ValueError of float() escapes
weekly_categorize_performance_noexcept(value) ==
    IF IsNA(value) THEN "Not Started"
    ELSE LET value_str == RemovePct(Strip(StrOf(value))) IN
         IF value_str = <<>> \/ value_str = <<"-">> THEN "Not Started"
         ELSE LET parsed == PyFloat(value_str) IN
              IF ~parsed.ok THEN Raised
              ELSE WeeklyTier(IF GreaterThan(parsed, 1) THEN DivideBy100(parsed) ELSE parsed)

\* parul_weekly.py _categorize_performance
weekly_categorize_performance(value) ==
    IF IsNA(value) THEN "Not Started"
    ELSE LET value_str == RemovePct(Strip(StrOf(value))) IN
         IF value_str = <<>> \/ value_str = <<"-">> THEN "Not Started"
         ELSE LET parsed == PyFloat(value_str) IN
              IF ~parsed.ok THEN "Invalid Score"          \* except ValueError
              ELSE WeeklyTier(IF GreaterThan(parsed, 1) THEN DivideBy100(parsed) ELSE parsed)

\* parul_weekly.py _compute_portal_status
compute_portal_status(value) ==
    LET value_str == Strip(StrOf(value)) IN
    IF value_str = <<"-">> THEN "Not Activated" ELSE "Activated"

\* _compute_attempt_status comparing the text before it is trimmed
compute_attempt_status_nostrip(value) ==
    LET value_str == IF IsNA(value) THEN <<>> ELSE StrOf(value) IN
    IF value_str = <<>> \/ value_str = <<"-">> THEN "No Attempt"
    ELSE IF value_str = <<"0", ":", "0", "0", ":", "0", "0">> THEN "Unsuccessful Attempt"
    ELSE "Successful Attempt"

\* parul_weekly.py _compute_attempt_status
compute_attempt_status(value) ==
    LET value_str == IF IsNA(value) THEN <<>> ELSE Strip(StrOf(value)) IN
    IF value_str = <<>> \/ value_str = <<"-">> THEN "No Attempt"
    ELSE IF value_str = <<"0", ":", "0", "0", ":", "0", "0">> THEN "Unsuccessful Attempt"
    ELSE "Successful Attempt"

----------------------------------------------------------------------------
(* The cells the classifiers are run on: every text over Alphabet of at    *)
(* most MaxLen characters, the texts of ExtraTexts, whole numbers and      *)
(* floats with two decimals up to MaxPct, null and a date.                 *)

Alphabet == {"7", "5", "2", "0", ".", "%", "-", " ", "N", "A", "a"}

TextsUpTo(n) == UNION {[1..i -> Alphabet] : i \in 0..n}

ExtraTexts ==
    {<<"N", "/", "A">>,
     <<"n", "/", "a">>,
     <<"N", "U", "L", "L">>,
     <<"n", "u", "l", "l">>,
     <<"N", "O", "N", "E">>,
     <<"n", "o", "n", "e">>,
     <<"n", "a", "n">>,
     <<"i", "n", "f">>,
     <<"-", "i", "n", "f">>,
     <<"a", "b", "c">>,
     <<"8", "0", "%">>,
     <<"6", "0", " ", "%">>,
     <<" ", "4", "0", " ">>,
     <<"5", "0", ".", "0", "1">>,
     <<"7", "5", ".", "0", "1", "%">>,
     <<"0", ".", "7", "5">>,
     <<"0", ".", "7", "4", "9">>,
     <<"0", ".", "5">>,
     <<"0", ".", "2", "5">>,
     <<"0", ".", "2", "4", "9">>,
     <<"1", ".", "0">>,
     <<"1", ".", "0", "1">>,
     <<"1", ".", "5">>,
     <<"1", "0", "0">>,
     <<"-", "0", ".", "5">>,
     <<"0", ":", "0", "0", ":", "0", "0">>,
     <<"1", ":", "3", "0", ":", "0", "0">>,
     <<" ", "0", ":", "0", "0", ":", "0", "0">>,
     <<"0", "0", ":", "0", "0", ":", "0", "0">>,
     <<"-", " ", "%">>,
     <<"R", "i", "y", "a">>}

Cells ==
    {NullCell, DateCell}
    \cup {TextCell(s) : s \in TextsUpTo(MaxLen) \cup ExtraTexts}
    \cup {IntCell(n) : n \in (0 - 2)..MaxPct}
    \cup {FloatCell(h) : h \in (0 - 200)..(MaxPct * 100)}

NoLabels == [perf |-> "none", weekly |-> "none", portal |-> "none", attempt |-> "none"]

IdleLoad == <<file, peek, tried, loaded>>

\* the variables of the input handling, the sniffer and the column resolver
IdleFront == <<source, run, content, kind, headers, roles>>

\* their values while another part of the program is exercised
FrontIdle ==
    /\ source = <<>>
    /\ run = <<>>
    /\ content = <<>>
    /\ kind = "none"
    /\ headers = <<>>
    /\ roles = <<>>

InitClassify ==
    /\ pc = "start"
    /\ cell \in Cells
    /\ labels = NoLabels
    /\ table = <<>>
    /\ report = "none"
    /\ pivots = <<>>
    /\ file = <<>>
    /\ peek = FALSE
    /\ tried = <<>>
    /\ loaded = "none"
    /\ FrontIdle

\* one row of df[col].apply(...): every classifier is applied to the cell
Classify ==
    /\ pc = "start"
    /\ labels = NoLabels
    /\ labels' = [perf |-> categorize_performance(cell),
                  weekly |-> weekly_categorize_performance(cell),
                  portal |-> compute_portal_status(cell),
                  attempt |-> compute_attempt_status(cell)]
    /\ pc' = "classified"
    /\ UNCHANGED <<cell, table, report, pivots>>
    /\ UNCHANGED IdleLoad
    /\ UNCHANGED IdleFront

NextClassify == Classify

SpecClassify == InitClassify /\ [][NextClassify]_vars

----------------------------------------------------------------------------
(* Properties of the classifiers (SpecClassify).                           *)

\* the number a cell's text spells once trimmed and freed of '%'
NumberOf(c) == PyFloat(Strip(RemovePct(Strip(StrOf(c)))))

\* the value of a finite parsed number as a fraction num / den
Num(n) == IF n.neg THEN 0 - n.m ELSE n.m

Den(n) == Pow10(n.k)

PerfMissing(c) ==
    \/ IsNA(c)
    \/ Strip(StrOf(c)) = <<>>
    \/ Upper(Strip(StrOf(c))) \in SentinelTexts

PerfTierAsClaimed(n) ==
    IF n.kind = "inf"
    THEN (IF n.neg THEN "Intervention" ELSE "Good")
    ELSE IF Num(n) > 75 * Den(n) THEN "Good"
    ELSE IF Num(n) > 50 * Den(n) /\ Num(n) <= 75 * Den(n) THEN "Satisfactory"
    ELSE IF Num(n) > 25 * Den(n) /\ Num(n) <= 50 * Den(n) THEN "Need Attention"
    ELSE "Intervention"

\* C6: the performance-report categorizer gives Not Attended for null, empty
\* and the sentinels NA, N/A, -, NULL, NONE (trimmed, any case) and for text
\* that is no number once '%' is removed; a number n gives Good if n > 75,
\* Satisfactory if 50 < n <= 75, Need Attention if 25 < n <= 50 and
\* Intervention if n <= 25.  (Text spelling the float NaN has no place in
\* that order and is left unconstrained.)
C6_PerformanceTiers ==
    pc = "classified" =>
        LET n == NumberOf(cell) IN
        /\ (PerfMissing(cell) \/ ~n.ok) => labels.perf = "Not Attended"
        /\ (~PerfMissing(cell) /\ n.ok /\ n.kind # "nan") =>
               labels.perf = PerfTierAsClaimed(n)

\* C6 witness: the boundary 75 has been classified, as Satisfactory
C6_Witness ==
    /\ pc = "classified"
    /\ cell = IntCell(75)
    /\ labels.perf = "Satisfactory"

WeeklyMissing(c) ==
    \/ IsNA(c)
    \/ RemovePct(Strip(StrOf(c))) = <<>>
    \/ RemovePct(Strip(StrOf(c))) = <<"-">>

\* the score as a fraction: divided by 100 exactly when the number exceeds 1
ScoreNum(n) == Num(n)

ScoreDen(n) == IF Num(n) > Den(n) THEN Den(n) * 100 ELSE Den(n)

WeeklyTierAsClaimed(n) ==
    IF n.kind = "inf"
    THEN (IF n.neg THEN "Invalid Score" ELSE "Good (75%+)")
    ELSE IF 4 * ScoreNum(n) >= 3 * ScoreDen(n) THEN "Good (75%+)"
    ELSE IF 2 * ScoreNum(n) >= ScoreDen(n) THEN "Satisfactory (50% - 75%)"
    ELSE IF 4 * ScoreNum(n) >= ScoreDen(n) THEN "Needs Attention (25% - 50%)"
    ELSE IF ScoreNum(n) >= 0 THEN "Intervention (0% - 25%)"
    ELSE "Invalid Score"

ZeroDuration == <<"0", ":", "0", "0", ":", "0", "0">>

\* C8: attemptStatus gives No Attempt for null, for text empty after trimming
\* and for '-', Unsuccessful Attempt for the text 0:00:00 and Successful
\* Attempt for every other value.
C8_AttemptStatus ==
    pc = "classified" =>
        LET t == Strip(StrOf(cell)) IN
        /\ (IsNA(cell) \/ t = <<>> \/ t = <<"-">>) <=> labels.attempt = "No Attempt"
        /\ (~IsNA(cell) /\ t = ZeroDuration) <=> labels.attempt = "Unsuccessful Attempt"
        /\ (~IsNA(cell) /\ t \notin {<<>>, <<"-">>, ZeroDuration})
               <=> labels.attempt = "Successful Attempt"

\* C8 witness: the duration 0:00:00 has been classified Unsuccessful Attempt
C8_Witness ==
    /\ pc = "classified"
    /\ cell = TextCell(ZeroDuration)
    /\ labels.attempt = "Unsuccessful Attempt"

\* C9: no classifier raises: for every cell (null, number, text, date) each
\* returns one of its own labels, and text that is no number gets the
\* sentinel label (Not Attended, resp. Invalid Score) of the categorizer.
C9_ClassifiersTotal ==
    pc = "classified" =>
        /\ labels.perf \in PerformanceLabels
        /\ labels.weekly \in WeeklyLabels
        /\ labels.portal \in PortalLabels
        /\ labels.attempt \in AttemptLabels
        /\ (~IsNA(cell) /\ ~NumberOf(cell).ok) =>
               /\ labels.perf = "Not Attended"
               /\ labels.weekly \in {"Invalid Score", "Not Started"}

\* C9 witness: the unparseable text abc was classified by all four functions
C9_Witness ==
    /\ pc = "classified"
    /\ cell = TextCell(<<"a", "b", "c">>)
    /\ labels.perf = "Not Attended"
    /\ labels.weekly = "Invalid Score"
    /\ labels.portal = "Activated"
    /\ labels.attempt = "Successful Attempt"

----------------------------------------------------------------------------
(* The delimited-text loader read_csv_with_encoding (app.py and the three  *)
(* report modules).  A file is described by what pd.read_csv makes of it:  *)
(* the codecs that decode its bytes, and per separator whether the parse   *)
(* raises, gives a frame without rows or a frame with rows.                *)

Encodings == <<"utf-8", "latin-1", "iso-8859-1", "cp1252", "windows-1252">>

Delimiters == <<",", ";", "\t", "|">>

Separators == {Delimiters[i] : i \in 1..Len(Delimiters)} \cup {"auto"}

ParseOutcomes == {"raise", "empty", "rows"}

\* latin-1 (alias iso-8859-1) decodes any bytes; cp1252 and windows-1252 are
\* one codec
Files ==
    {[decodes |-> d, parse |-> p] :
        d \in {{"latin-1", "iso-8859-1"} \cup u \cup w :
                 u \in {{}, {"utf-8"}}, w \in {{}, {"cp1252", "windows-1252"}}},
        p \in [Separators -> ParseOutcomes]}

\* the nested loops with the delimiter as the outer loop (a swapped nest)
PairAtDelimiterOuter(n) ==
    [stage |-> 1,
     encoding |-> Encodings[(n % Len(Encodings)) + 1],
     delimiter |-> Delimiters[(n \div Len(Encodings)) + 1]]

\* for encoding in encodings: for delimiter in delimiters: the n-th pair (from 0)
PairAt(n) ==
    [stage |-> 1,
     encoding |-> Encodings[(n \div Len(Delimiters)) + 1],
     delimiter |-> Delimiters[(n % Len(Delimiters)) + 1]]

\* the second loop: for encoding in encodings, sep=None
AutoAt(n) == [stage |-> 2, encoding |-> Encodings[n + 1], delimiter |-> "auto"]

LastResort == [stage |-> 3, encoding |-> "utf-8", delimiter |-> "auto"]

NumPairs == Len(Encodings) * Len(Delimiters)

\* pd.read_csv(...) under one strategy.  The last resort passes errors='replace',
\* a keyword read_csv does not have (it is encoding_errors): the call raises
\* TypeError for every file.
ReadCsv(f, strategy) ==
    IF strategy.stage = 3 THEN "raise"
    ELSE IF strategy.encoding \notin f.decodes THEN "raise"
    ELSE f.parse[strategy.delimiter]

\* if len(df) > 0 or nrows: return df
Accepted(outcome, isPeek) == outcome = "rows" \/ (outcome = "empty" /\ isPeek)

InitLoader ==
    /\ pc = "loading"
    /\ file \in Files
    /\ peek \in BOOLEAN
    /\ tried = <<>>
    /\ loaded = "none"
    /\ FrontIdle
    /\ cell = NullCell
    /\ labels = NoLabels
    /\ table = <<>>
    /\ report = "none"
    /\ pivots = <<>>

\* one pass of the first loop nest
TryPair ==
    /\ pc = "loading"
    /\ Len(tried) < NumPairs
    /\ LET strategy == PairAt(Len(tried)) IN
       /\ tried' = Append(tried, strategy)
       /\ IF Accepted(ReadCsv(file, strategy), peek)
          THEN loaded' = "table" /\ pc' = "returned"
          ELSE UNCHANGED <<loaded, pc>>
    /\ UNCHANGED <<file, peek, cell, labels, table, report, pivots>>
    /\ UNCHANGED IdleFront

\* one pass of the auto-detection loop
TryAutoDetect ==
    /\ pc = "loading"
    /\ Len(tried) >= NumPairs
    /\ Len(tried) < NumPairs + Len(Encodings)
    /\ LET strategy == AutoAt(Len(tried) - NumPairs) IN
       /\ tried' = Append(tried, strategy)
       /\ IF Accepted(ReadCsv(file, strategy), peek)
          THEN loaded' = "table" /\ pc' = "returned"
          ELSE UNCHANGED <<loaded, pc>>
    /\ UNCHANGED <<file, peek, cell, labels, table, report, pivots>>
    /\ UNCHANGED IdleFront

\* the last resort: its frame is returned whatever its length, its exception
\* becomes the ValueError "Unable to read CSV file"
TryLastResort ==
    /\ pc = "loading"
    /\ Len(tried) = NumPairs + Len(Encodings)
    /\ tried' = Append(tried, LastResort)
    /\ IF ReadCsv(file, LastResort) = "raise"
       THEN loaded' = "error" /\ pc' = "raised"
       ELSE loaded' = "table" /\ pc' = "returned"
    /\ UNCHANGED <<file, peek, cell, labels, table, report, pivots>>
    /\ UNCHANGED IdleFront

NextLoader == TryPair \/ TryAutoDetect \/ TryLastResort

SpecLoader == InitLoader /\ [][NextLoader]_vars

----------------------------------------------------------------------------
(* Properties of the loader (SpecLoader).                                  *)

\* the order of the strategies as the specification states it
StrategyOrder ==
    << [stage |-> 1, encoding |-> "utf-8", delimiter |-> ","],
       [stage |-> 1, encoding |-> "utf-8", delimiter |-> ";"],
       [stage |-> 1, encoding |-> "utf-8", delimiter |-> "\t"],
       [stage |-> 1, encoding |-> "utf-8", delimiter |-> "|"],
       [stage |-> 1, encoding |-> "latin-1", delimiter |-> ","],
       [stage |-> 1, encoding |-> "latin-1", delimiter |-> ";"],
       [stage |-> 1, encoding |-> "latin-1", delimiter |-> "\t"],
       [stage |-> 1, encoding |-> "latin-1", delimiter |-> "|"],
       [stage |-> 1, encoding |-> "iso-8859-1", delimiter |-> ","],
       [stage |-> 1, encoding |-> "iso-8859-1", delimiter |-> ";"],
       [stage |-> 1, encoding |-> "iso-8859-1", delimiter |-> "\t"],
       [stage |-> 1, encoding |-> "iso-8859-1", delimiter |-> "|"],
       [stage |-> 1, encoding |-> "cp1252", delimiter |-> ","],
       [stage |-> 1, encoding |-> "cp1252", delimiter |-> ";"],
       [stage |-> 1, encoding |-> "cp1252", delimiter |-> "\t"],
       [stage |-> 1, encoding |-> "cp1252", delimiter |-> "|"],
       [stage |-> 1, encoding |-> "windows-1252", delimiter |-> ","],
       [stage |-> 1, encoding |-> "windows-1252", delimiter |-> ";"],
       [stage |-> 1, encoding |-> "windows-1252", delimiter |-> "\t"],
       [stage |-> 1, encoding |-> "windows-1252", delimiter |-> "|"],
       [stage |-> 2, encoding |-> "utf-8", delimiter |-> "auto"],
       [stage |-> 2, encoding |-> "latin-1", delimiter |-> "auto"],
       [stage |-> 2, encoding |-> "iso-8859-1", delimiter |-> "auto"],
       [stage |-> 2, encoding |-> "cp1252", delimiter |-> "auto"],
       [stage |-> 2, encoding |-> "windows-1252", delimiter |-> "auto"],
       [stage |-> 3, encoding |-> "utf-8", delimiter |-> "auto"] >>

\* a strategy succeeds when it parses without error and yields a row (for a
\* header peek, or for the last resort: when it parses without error)
Succeeds(strategy) ==
    LET outcome == ReadCsv(file, strategy) IN
    IF strategy.stage = 3 \/ peek THEN outcome # "raise" ELSE outcome = "rows"

\* C10: the loader tries the 20 (encoding, delimiter) pairs with the encoding
\* as outer loop, then the 5 encodings with auto-detection, then the last
\* resort, strictly in that order; every strategy tried before the last one
\* tried has failed, and the load returns exactly when the last one tried
\* succeeded, so that nothing is attempted after the first success.
C10_StrategyOrder ==
    /\ Len(tried) <= Len(StrategyOrder)
    /\ \A i \in 1..Len(tried) : tried[i] = StrategyOrder[i]
    /\ \A i \in 1..(Len(tried) - 1) : ~Succeeds(tried[i])
    /\ loaded = "table" <=> (tried # <<>> /\ Succeeds(tried[Len(tried)]))
    /\ loaded = "error" =>
          /\ Len(tried) = Len(StrategyOrder)
          /\ \A i \in 1..Len(tried) : ~Succeeds(tried[i])
    /\ pc = "loading" <=> loaded = "none"

\* C10 witness: all 20 pairs failed and an auto-detection attempt returned
C10_Witness ==
    /\ loaded = "table"
    /\ Len(tried) > NumPairs
    /\ tried[Len(tried)].stage = 2

\* C11: the load fails only if every strategy (the 20 pairs, the 5
\* auto-detection attempts and the last resort) raised; a file that some
\* strategy parses without raising is loaded as a table.
C11_FailsOnlyIfAllRaise ==
    loaded = "error" =>
        \A i \in 1..Len(StrategyOrder) : ReadCsv(file, StrategyOrder[i]) = "raise"

\* C29: a file the header peek (nrows=1) accepts under a strategy is loaded
\* in full through the same strategy: under the rule of the full load that
\* strategy yields a table, and no earlier strategy does.
C29_PeekAgreesWithLoad ==
    (peek /\ loaded = "table") =>
        /\ Accepted(ReadCsv(file, tried[Len(tried)]), FALSE)
        /\ \A i \in 1..(Len(tried) - 1) : ~Accepted(ReadCsv(file, tried[i]), FALSE)

----------------------------------------------------------------------------
(* Reading the input file: pd.read_excel, the delimited-text loader as a   *)
(* function, and the load step of the three report generators.  A file is  *)
(* described by its declared extension, by what pd.read_excel makes of it  *)
(* (source.book) and by what pd.read_csv makes of it (file).               *)

\* str(e) of the exceptions pd.read_excel raises
\* ValueError: the content is neither a ZIP archive nor an OLE2 file
MsgFormatUnknown ==
    <<"E", "x", "c", "e", "l", " ", "f", "i", "l", "e", " ", "f", "o", "r",
      "m", "a", "t", " ", "c", "a", "n", "n", "o", "t", " ", "b", "e", " ",
      "d", "e", "t", "e", "r", "m", "i", "n", "e", "d", ",", " ", "y", "o",
      "u", " ", "m", "u", "s", "t", " ", "s", "p", "e", "c", "i", "f", "y",
      " ", "a", "n", " ", "e", "n", "g", "i", "n", "e", " ", "m", "a", "n",
      "u", "a", "l", "l", "y", ".">>

\* zipfile.BadZipFile: the content has the ZIP signature and no archive directory
MsgNotZip ==
    <<"F", "i", "l", "e", " ", "i", "s", " ", "n", "o", "t", " ", "a", " ",
      "z", "i", "p", " ", "f", "i", "l", "e">>

\* xlrd.XLRDError: an OLE2 file without a readable workbook stream
MsgCorruptFile ==
    <<"U", "n", "s", "u", "p", "p", "o", "r", "t", "e", "d", " ", "f", "o",
      "r", "m", "a", "t", ",", " ", "o", "r", " ", "c", "o", "r", "r", "u",
      "p", "t", " ", "f", "i", "l", "e", ":", " ", "E", "x", "p", "e", "c",
      "t", "e", "d", " ", "B", "O", "F", " ", "r", "e", "c", "o", "r", "d",
      ";", " ", "f", "o", "u", "n", "d", " ", "b", "'", "N", "a", "m", "e",
      ",", "D", "e", "p", "'">>

\* ImportError: the reader's engine is not installed
MsgNoEngine ==
    <<"M", "i", "s", "s", "i", "n", "g", " ", "o", "p", "t", "i", "o", "n",
      "a", "l", " ", "d", "e", "p", "e", "n", "d", "e", "n", "c", "y", " ",
      "'", "o", "p", "e", "n", "p", "y", "x", "l", "'", ".", " ", " ", "U",
      "s", "e", " ", "p", "i", "p", " ", "o", "r", " ", "c", "o", "n", "d",
      "a", " ", "t", "o", " ", "i", "n", "s", "t", "a", "l", "l", " ", "o",
      "p", "e", "n", "p", "y", "x", "l", ".">>

\* ValueError: the workbook has no sheet of the requested name
MsgNoSheet ==
    <<"W", "o", "r", "k", "s", "h", "e", "e", "t", " ", "n", "a", "m", "e",
      "d", " ", "'", "O", "v", "e", "r", "a", "l", "l", " ", "D", "a", "t",
      "a", "'", " ", "n", "o", "t", " ", "f", "o", "u", "n", "d">>

KwWorksheets ==
    <<"c", "a", "n", "n", "o", "t", " ", "b", "e", " ", "u", "s", "e", "d",
      " ", "i", "n", " ", "w", "o", "r", "k", "s", "h", "e", "e", "t", "s">>

KwBadZip ==
    <<"b", "a", "d", "z", "i", "p", "f", "i", "l", "e">>

KwCorrupt ==
    <<"c", "o", "r", "r", "u", "p", "t">>

NoError == [exc |-> "none", msg |-> <<>>, structural |-> FALSE]

\* the ways pd.read_excel fails on a file it cannot open
ExcelErrors == {"format unknown", "not a zip file", "corrupt file", "no engine"}

\* the exception of each: its class, its str(e), and whether it reports that
\* the bytes are no well-formed workbook
ExcelError(name) ==
    CASE name = "format unknown" ->
            [exc |-> "ValueError", msg |-> MsgFormatUnknown, structural |-> TRUE]
      [] name = "not a zip file" ->
            [exc |-> "BadZipFile", msg |-> MsgNotZip, structural |-> TRUE]
      [] name = "corrupt file" ->
            [exc |-> "XLRDError", msg |-> MsgCorruptFile, structural |-> TRUE]
      [] name = "no engine" ->
            [exc |-> "ImportError", msg |-> MsgNoEngine, structural |-> FALSE]
      [] name = "no sheet" ->
            [exc |-> "ValueError", msg |-> MsgNoSheet, structural |-> FALSE]
      [] OTHER -> NoError

OverallData == "Overall Data"

FirstSheet == "<first>"

SheetLists ==
    {<<OverallData>>, <<"Sheet1">>, <<"Sheet1", OverallData>>, <<OverallData, "Sheet1">>}

\* what pd.read_excel makes of a file: a workbook with its sheets, or an error
Books ==
    {[opens |-> TRUE, sheets |-> s, error |-> "none"] : s \in SheetLists}
    \cup {[opens |-> FALSE, sheets |-> <<>>, error |-> e] : e \in ExcelErrors}

\* pd.read_excel(path, sheet_name=sheet); FirstSheet is the default sheet_name=0
read_excel(book, sheet) ==
    IF ~book.opens THEN [ok |-> FALSE, sheet |-> "none", error |-> ExcelError(book.error)]
    ELSE IF sheet = FirstSheet THEN [ok |-> TRUE, sheet |-> book.sheets[1], error |-> NoError]
    ELSE IF \E i \in 1..Len(book.sheets) : book.sheets[i] = sheet
         THEN [ok |-> TRUE, sheet |-> sheet, error |-> NoError]
    ELSE [ok |-> FALSE, sheet |-> "none", error |-> ExcelError("no sheet")]

\* 'cannot be used in worksheets' in error_msg or 'badzipfile' in error_msg
\* or 'corrupt' in error_msg, with error_msg = str(e).lower()
IsCorruption(e) ==
    LET error_msg == Lower(e.msg) IN
    \/ Contains(error_msg, KwWorksheets)
    \/ Contains(error_msg, KwBadZip)
    \/ Contains(error_msg, KwCorrupt)

\* read_csv_with_encoding as a function of the file: "table" or "error"
read_csv_with_encoding(f, isPeek) ==
    IF \E n \in 0..(NumPairs - 1) : Accepted(ReadCsv(f, PairAt(n)), isPeek) THEN "table"
    ELSE IF \E n \in 0..(Len(Encodings) - 1) : Accepted(ReadCsv(f, AutoAt(n)), isPeek)
         THEN "table"
    ELSE IF ReadCsv(f, LastResort) = "raise" THEN "error"
    ELSE "table"

\* the result of a load step: the readers called in order, "table" or
\* "error", the reader the table came from, the sheet read, the error raised
Loaded(calls, from, sheet) ==
    [calls |-> calls, outcome |-> "table", from |-> from, sheet |-> sheet, error |-> "none"]

Failed(calls, error) ==
    [calls |-> calls, outcome |-> "error", from |-> "none", sheet |-> "none", error |-> error]

CallCsv == "read_csv"

CallExcel == "read_excel"

CallOverall == "read_excel:Overall Data"

\* generate_participation_report and generate_performance_report: the load
\* step, by the extension of the path they are given
load_input(ext, book, f) ==
    IF ext = "csv"
    THEN IF read_csv_with_encoding(f, FALSE) = "table"
         THEN Loaded(<<CallCsv>>, "csv", "none")
         ELSE Failed(<<CallCsv>>, "Unable to read CSV file")
    ELSE IF ext \in {"xlsx", "xls"}
    THEN LET x == read_excel(book, FirstSheet) IN
         IF x.ok THEN Loaded(<<CallExcel>>, "excel", x.sheet)
         ELSE IF IsCorruption(x.error)
         THEN IF read_csv_with_encoding(f, FALSE) = "table"
              THEN Loaded(<<CallExcel, CallCsv>>, "csv", "none")
              ELSE Failed(<<CallExcel, CallCsv>>, "Invalid or corrupted file")
         ELSE Failed(<<CallExcel>>, "Error reading Excel file")
    ELSE Failed(<<>>, "Unsupported file format")

\* _load_overall_data.  An exception of the second read_excel, raised inside
\* the handler of ValueError, leaves the function.
load_overall_data(ext, book, f) ==
    IF ext = "csv"
    THEN IF read_csv_with_encoding(f, FALSE) = "table"
         THEN Loaded(<<CallCsv>>, "csv", "none")
         ELSE Failed(<<CallCsv>>, "Unable to read CSV file")
    ELSE LET x == read_excel(book, OverallData) IN
         IF x.ok THEN Loaded(<<CallOverall>>, "excel", x.sheet)
         ELSE IF x.error.exc = "ValueError"
         THEN LET y == read_excel(book, FirstSheet) IN
              IF y.ok THEN Loaded(<<CallOverall, CallExcel>>, "excel", y.sheet)
              ELSE Failed(<<CallOverall, CallExcel>>, y.error.exc)
         ELSE IF read_csv_with_encoding(f, FALSE) = "table"
              THEN Loaded(<<CallOverall, CallCsv>>, "csv", "none")
              ELSE Failed(<<CallOverall, CallCsv>>, "Unable to read Overall Data sheet")

\* the report generators
Reports == {"participation", "performance", "weekly"}

Extensions == {"csv", "xlsx", "xls", "txt"}

\* the files of the load step: one outcome for the separators after the comma
SourceFiles ==
    {f \in Files : f.parse[";"] = f.parse["\t"] /\ f.parse["\t"] = f.parse["|"]}

NoRun == [calls |-> <<>>, outcome |-> "none", from |-> "none", sheet |-> "none", error |-> "none"]

InitSource ==
    /\ pc = "input"
    /\ report \in Reports
    /\ source \in [ext : Extensions, sniffed : {"none"}, book : Books]
    /\ file \in SourceFiles
    /\ run = NoRun
    /\ peek = FALSE
    /\ tried = <<>>
    /\ loaded = "none"
    /\ cell = NullCell
    /\ labels = NoLabels
    /\ table = <<>>
    /\ pivots = <<>>
    /\ content = <<>>
    /\ kind = "none"
    /\ headers = <<>>
    /\ roles = <<>>

IdleSource == <<report, source, file, peek, tried, loaded, cell, labels, table,
                pivots, content, kind, headers, roles>>

\* generate_participation_report, lines 100-120
LoadParticipation ==
    /\ pc = "input"
    /\ report = "participation"
    /\ run' = load_input(source.ext, source.book, file)
    /\ pc' = IF run'.outcome = "table" THEN "loaded" ELSE "raised"
    /\ UNCHANGED IdleSource

\* generate_performance_report, lines 101-128: the participation report is
\* generated from the same path first, then the file is loaded again
LoadPerformance ==
    /\ pc = "input"
    /\ report = "performance"
    /\ LET first == load_input(source.ext, source.book, file)
           second == load_input(source.ext, source.book, file) IN
       run' = IF first.outcome = "error" THEN first
              ELSE [second EXCEPT !.calls = first.calls \o second.calls]
    /\ pc' = IF run'.outcome = "table" THEN "loaded" ELSE "raised"
    /\ UNCHANGED IdleSource

\* generate_parul_weekly_report, line 78
LoadOverallData ==
    /\ pc = "input"
    /\ report = "weekly"
    /\ run' = load_overall_data(source.ext, source.book, file)
    /\ pc' = IF run'.outcome = "table" THEN "loaded" ELSE "raised"
    /\ UNCHANGED IdleSource

NextSource == LoadParticipation \/ LoadPerformance \/ LoadOverallData

SpecSource == InitSource /\ [][NextSource]_vars

----------------------------------------------------------------------------
(* Properties of the load step (SpecSource).                               *)

\* the file is declared a spreadsheet and the reader reports that its bytes
\* are no well-formed workbook
StructuralError ==
    /\ source.ext \in {"xlsx", "xls"}
    /\ ~source.book.opens
    /\ ExcelError(source.book.error).structural

\* C12: when the spreadsheet reader reports a structural or corruption error
\* on a file declared a spreadsheet, the participation and performance
\* generators retry the file as delimited text, continue with that table
\* when the retry succeeds and raise only when the retry fails as well.
C12_SpreadsheetFallback ==
    (pc # "input" /\ report \in {"participation", "performance"} /\ StructuralError) =>
        /\ run.outcome = "table" <=> read_csv_with_encoding(file, FALSE) = "table"
        /\ run.outcome = "table" => run.from = "csv"

\* C13: the weekly loader reads the sheet 'Overall Data' of a spreadsheet
\* first and the first sheet exactly when that sheet is absent; a file that
\* cannot be read as a spreadsheet at all is loaded as delimited text, and
\* the load raises only when that fails too.
C13_OverallDataSheet ==
    (pc # "input" /\ report = "weekly" /\ source.ext # "csv") =>
        /\ run.calls[1] = CallOverall
        /\ source.book.opens =>
              /\ run.outcome = "table"
              /\ run.from = "excel"
              /\ run.sheet = IF \E i \in 1..Len(source.book.sheets) :
                                    source.book.sheets[i] = OverallData
                             THEN OverallData ELSE source.book.sheets[1]
        /\ ~source.book.opens =>
              /\ run.outcome = "table" <=> read_csv_with_encoding(file, FALSE) = "table"
              /\ run.outcome = "table" => run.from = "csv"

----------------------------------------------------------------------------
(* The format sniffer detect_file_type (app.py).  The content of a file is *)
(* a sequence of bytes: an ASCII byte is written as its character, the     *)
(* bytes 0x00, 0x03, 0x04 and those above 0x7F as two hexadecimal digits.  *)

\* f.read(8) and f.read(50)
HeaderLen == 8

SniffWindow == 50

\* the bytes above 0x7F of the model
HighBytes == {"C3", "A9", "E9", "EF", "BB", "BF", "FF", "FE"}

\* UTF-8 continuation bytes (0x80..0xBF) among them
ContinuationBytes == {"A9", "BB", "BF"}

\* a character that is not ASCII, whatever code point it is
NonAscii == "<non-ascii>"

ZipSignature == <<"P", "K">>

Utf8Bom == <<"EF", "BB", "BF">>

Utf16Boms == {<<"FF", "FE">>, <<"FE", "FF">>}

MarkerXl == <<"x", "l", "/">>

MarkerContentTypes ==
    <<"[", "C", "o", "n", "t", "e", "n", "t", "_", "T", "y", "p", "e", "s", "]", ".", "x", "m", "l">>

\* b[:n]
Take(b, n) == SubSeq(b, 1, IF Len(b) < n THEN Len(b) ELSE n)

RECURSIVE DecodeUtf8(_)
\* bytes.decode('utf-8', errors='ignore'): a lead byte with its continuation
\* bytes gives one character, any other byte above 0x7F is dropped
DecodeUtf8(b) ==
    IF b = <<>> THEN <<>>
    ELSE IF Head(b) \notin HighBytes THEN <<Head(b)>> \o DecodeUtf8(Tail(b))
    ELSE IF Head(b) = "C3" /\ Len(b) >= 2 /\ b[2] \in ContinuationBytes
         THEN <<NonAscii>> \o DecodeUtf8(SubSeq(b, 3, Len(b)))
    ELSE IF /\ Head(b) \in {"E9", "EF"}
            /\ Len(b) >= 3
            /\ b[2] \in ContinuationBytes
            /\ b[3] \in ContinuationBytes
         THEN <<NonAscii>> \o DecodeUtf8(SubSeq(b, 4, Len(b)))
    ELSE DecodeUtf8(Tail(b))

\* latin-1 and cp1252 give one character for every byte of the model
DecodeSingleByte(b) ==
    [i \in 1..Len(b) |-> IF b[i] \in HighBytes THEN NonAscii ELSE b[i]]

SniffEncodings == <<"utf-8", "latin-1", "cp1252">>

\* open(file_path, 'r', encoding=encoding, errors='ignore')
Decode(b, encoding) ==
    IF encoding = "utf-8" THEN DecodeUtf8(b) ELSE DecodeSingleByte(b)

\* f.readline(): the text up to and including the first newline
ReadLine(text) ==
    IF \E i \in 1..Len(text) : text[i] = "\n"
    THEN SubSeq(text, 1, CHOOSE i \in 1..Len(text) :
                            text[i] = "\n" /\ \A j \in 1..(i - 1) : text[j] # "\n")
    ELSE text

\* the characters str.strip() removes
IsWhite(c) == c \in {" ", "\t", "\n"}

\* len(first_line.strip()) > 0
NonBlank(line) == \E i \in 1..Len(line) : ~IsWhite(line[i])

\* first_line.encode('ascii') does not raise
EncodesAscii(line) == \A i \in 1..Len(line) : line[i] # NonAscii

\* ',' in first_line or ';' in first_line or '\t' in first_line
HasDelimiter(line) == \E i \in 1..Len(line) : line[i] \in {",", ";", "\t"}

\* the test of one encoding with the check of readable text left out
LooksLikeCsvDelimiterOnly(line) ==
    line # <<>> /\ HasDelimiter(line)

\* lines 65-76: the tests made on the first line under one encoding
LooksLikeCsv(line) ==
    \/ line # <<>> /\ HasDelimiter(line)
    \/ line # <<>> /\ NonBlank(line) /\ EncodesAscii(line)

\* the marker test over the whole content instead of its first bytes
HasExcelMarkerAnywhere(b) ==
    Contains(b, MarkerXl) \/ Contains(b, MarkerContentTypes)

\* b'xl/' in full_header or b'[Content_Types].xml' in full_header
HasExcelMarker(b) ==
    \/ Contains(Take(b, SniffWindow), MarkerXl)
    \/ Contains(Take(b, SniffWindow), MarkerContentTypes)

\* a file that cannot be opened
Unreadable == <<"<unreadable>">>

\* detect_file_type
detect_file_type(b) ==
    IF b = Unreadable THEN "unknown"
    ELSE LET header == Take(b, HeaderLen) IN
         IF Take(header, 2) = ZipSignature
         THEN IF HasExcelMarker(b) THEN "excel" ELSE "unknown"
         ELSE IF Take(header, 3) = Utf8Bom THEN "csv"
         ELSE IF Take(header, 2) \in Utf16Boms THEN "csv"
         ELSE IF \E i \in 1..Len(SniffEncodings) :
                    LooksLikeCsv(ReadLine(Decode(b, SniffEncodings[i])))
              THEN "csv"
         ELSE "unknown"

\* the contents of the model: a start, padding, a marker or a piece of text,
\* and a second line
RECURSIVE Pad(_)
Pad(n) == IF n = 0 THEN <<>> ELSE <<"00">> \o Pad(n - 1)

Starts ==
    {<<>>, ZipSignature \o <<"03", "04">>, ZipSignature, <<"P">>, <<"K", "P">>,
     Utf8Bom, <<"EF", "BB">>, <<"FF", "FE">>, <<"FE", "FF">>, <<"FF">>,
     <<"a">>, <<" ">>, <<"C3", "A9">>, <<"E9">>}

Middles ==
    {<<>>, MarkerXl, MarkerContentTypes, <<"x", "l">>, <<",">>, <<";">>, <<"\t">>,
     <<"|">>, <<"a", "b">>, <<"C3", "A9", "|">>, <<"E9", "a">>, <<" ">>}

Ends == {<<>>, <<"\n", "a", ",", "b">>}

Contents ==
    {s \o Pad(n) \o m \o e : s \in Starts, n \in 0..MaxPad, m \in Middles, e \in Ends}
    \cup {Unreadable}

InitSniff ==
    /\ pc = "sniff"
    /\ content \in Contents
    /\ kind = "none"
    /\ source = <<>>
    /\ run = <<>>
    /\ headers = <<>>
    /\ roles = <<>>
    /\ cell = NullCell
    /\ labels = NoLabels
    /\ table = <<>>
    /\ report = "none"
    /\ pivots = <<>>
    /\ file = <<>>
    /\ peek = FALSE
    /\ tried = <<>>
    /\ loaded = "none"

\* actual_file_type = detect_file_type(input_path)
Sniff ==
    /\ pc = "sniff"
    /\ kind' = detect_file_type(content)
    /\ pc' = "sniffed"
    /\ UNCHANGED <<content, source, run, headers, roles, cell, labels, table,
                   report, pivots, file, peek, tried, loaded>>

NextSniff == Sniff

SpecSniff == InitSniff /\ [][NextSniff]_vars

----------------------------------------------------------------------------
(* Properties of the sniffer (SpecSniff).                                  *)

HasZipSignature == Len(content) >= 2 /\ SubSeq(content, 1, 2) = <<"P", "K">>

\* a marker lies wholly inside the first 50 bytes
MarkerInWindow ==
    \E i \in 0..(SniffWindow - 1) :
        \/ i + 3 <= SniffWindow /\ i + 3 <= Len(content)
              /\ SubSeq(content, i + 1, i + 3) = MarkerXl
        \/ i + 19 <= SniffWindow /\ i + 19 <= Len(content)
              /\ SubSeq(content, i + 1, i + 19) = MarkerContentTypes

\* C14: content that starts with the ZIP signature 'PK' is classified as a
\* spreadsheet exactly when a marker ('xl/' or '[Content_Types].xml') lies
\* in its first 50 bytes, as unknown otherwise, and never as delimited text.
C14_ZipNeedsMarker ==
    (pc = "sniffed" /\ HasZipSignature) =>
        /\ kind = "excel" <=> MarkerInWindow
        /\ kind = "unknown" <=> ~MarkerInWindow
        /\ kind # "csv"

\* C14 witness: a ZIP signature with a marker that starts inside the first 50
\* bytes and ends after them is classified as unknown
C14_Witness ==
    /\ pc = "sniffed"
    /\ HasZipSignature
    /\ HasExcelMarkerAnywhere(content)
    /\ ~MarkerInWindow
    /\ kind = "unknown"

StartsWithBom ==
    \/ Len(content) >= 3 /\ SubSeq(content, 1, 3) = <<"EF", "BB", "BF">>
    \/ Len(content) >= 2 /\ SubSeq(content, 1, 2) = <<"FF", "FE">>
    \/ Len(content) >= 2 /\ SubSeq(content, 1, 2) = <<"FE", "FF">>

\* the first line of the content under an encoding
FirstLine(encoding) == ReadLine(Decode(content, encoding))

\* printable ASCII characters, the blanks and the line end
IsPlainChar(c) == c \notin {NonAscii, "00", "03", "04"}

\* the line holds a comma, a semicolon or a tab
DelimitedLine(line) == \E i \in 1..Len(line) : line[i] = "," \/ line[i] = ";" \/ line[i] = "\t"

\* the line is printable ASCII text and not blank
PlainTextLine(line) ==
    /\ \A i \in 1..Len(line) : IsPlainChar(line[i])
    /\ \E i \in 1..Len(line) : line[i] \notin {" ", "\t", "\n"}

\* the line is ASCII and not blank
AsciiLine(line) ==
    /\ \A i \in 1..Len(line) : line[i] # NonAscii
    /\ \E i \in 1..Len(line) : line[i] \notin {" ", "\t", "\n"}

\* C15: content without the ZIP signature is classified as delimited text if
\* it starts with a UTF-8 or UTF-16 byte-order mark, or if under one of the
\* encodings utf-8, latin-1, cp1252 its first line holds a delimiter (comma,
\* semicolon, tab) or is non-blank printable ASCII text; it is classified as
\* unknown if under no encoding the first line holds a delimiter or is
\* non-blank ASCII; the sniffer returns for every content, also for a file
\* it cannot open.
C15_TextSniff ==
    /\ pc = "sniffed" => kind \in {"excel", "csv", "unknown"}
    /\ (pc = "sniffed" /\ content = Unreadable) => kind = "unknown"
    /\ (pc = "sniffed" /\ content # Unreadable /\ ~HasZipSignature) =>
          /\ kind \in {"csv", "unknown"}
          /\ StartsWithBom => kind = "csv"
          /\ (\E i \in 1..Len(SniffEncodings) :
                 \/ DelimitedLine(FirstLine(SniffEncodings[i]))
                 \/ PlainTextLine(FirstLine(SniffEncodings[i]))) => kind = "csv"
          /\ (/\ ~StartsWithBom
              /\ \A i \in 1..Len(SniffEncodings) :
                    /\ ~DelimitedLine(FirstLine(SniffEncodings[i]))
                    /\ ~AsciiLine(FirstLine(SniffEncodings[i]))) => kind = "unknown"

\* C15 witness: a first line without delimiter that is ASCII only once utf-8
\* has dropped an invalid byte is classified as delimited text
C15_Witness ==
    /\ pc = "sniffed"
    /\ content # Unreadable
    /\ ~HasZipSignature
    /\ ~StartsWithBom
    /\ kind = "csv"
    /\ ~DelimitedLine(FirstLine("utf-8"))
    /\ PlainTextLine(FirstLine("utf-8"))
    /\ ~AsciiLine(FirstLine("latin-1"))

----------------------------------------------------------------------------
(* The upload handler upload_file (app.py).  The request carries a file    *)
(* (source, file) and an action (report).  source.sniffed is what          *)
(* detect_file_type returns on the saved file, source.columns tells which  *)
(* generators find their required columns in the table.                    *)

CallCsvPeek == "read_csv:nrows=1"

CallExcelPeek == "read_excel:nrows=1"

\* pd.read_excel(input_path, nrows=1) and the handling of its exception,
\* lines 285-300 and 303-318: the readers called, read_as_csv, the flash
\* message when the request ends here
TryExcelThenCsv(book, f, invalid) ==
    LET x == read_excel(book, FirstSheet) IN
    IF x.ok THEN [checks |-> <<CallExcelPeek>>, read_as_csv |-> FALSE, flash |-> "none"]
    ELSE IF IsCorruption(x.error)
    THEN IF read_csv_with_encoding(f, TRUE) = "table"
         THEN [checks |-> <<CallExcelPeek, CallCsvPeek>>, read_as_csv |-> TRUE, flash |-> "none"]
         ELSE [checks |-> <<CallExcelPeek, CallCsvPeek>>, read_as_csv |-> FALSE, flash |-> invalid]
    ELSE [checks |-> <<CallExcelPeek>>, read_as_csv |-> FALSE, flash |-> "Error reading Excel file"]

\* read_csv_with_encoding(input_path, nrows=1); read_as_csv = True, with the
\* handler of line 319 for its exception
PeekCsv(f) ==
    IF read_csv_with_encoding(f, TRUE) = "table"
    THEN [checks |-> <<CallCsvPeek>>, read_as_csv |-> TRUE, flash |-> "none"]
    ELSE [checks |-> <<CallCsvPeek>>, read_as_csv |-> FALSE, flash |-> "Error reading file"]

\* the validation with the sniffed type ignored for spreadsheet extensions
validate_input_nosniff(ext, sniffed, book, f) ==
    IF ext = "csv" THEN PeekCsv(f)
    ELSE IF sniffed = "excel" THEN TryExcelThenCsv(book, f, "Invalid or corrupted file")
    ELSE TryExcelThenCsv(book, f, "Invalid file")

\* lines 272-321: how the file is to be read
validate_input(ext, sniffed, book, f) ==
    IF ext = "csv" THEN PeekCsv(f)
    ELSE IF sniffed = "csv" THEN PeekCsv(f)
    ELSE IF sniffed = "excel" THEN TryExcelThenCsv(book, f, "Invalid or corrupted file")
    ELSE TryExcelThenCsv(book, f, "Invalid file")

\* generate_participation_report: the load step, then the pivot, which needs
\* the Department and Test Status columns; the workbook is saved last
generate_participation_report(ext, book, f, columns) ==
    LET l == load_input(ext, book, f) IN
    IF l.outcome = "error"
    THEN [calls |-> l.calls, made |-> FALSE, error |-> l.error, temp_xlsx |-> "none"]
    ELSE IF columns = "none"
    THEN [calls |-> l.calls, made |-> FALSE, error |-> "Required columns not found",
          temp_xlsx |-> "none"]
    ELSE [calls |-> l.calls, made |-> TRUE, error |-> "none", temp_xlsx |-> "none"]

\* generate_performance_report: the participation report saved as the
\* '_temp.xlsx' workbook, the load step again, then the Test Status, total
\* percentage and Department columns; the workbook is removed by the last
\* statements (lines 250-253)
generate_performance_report(ext, book, f, columns) ==
    LET first == generate_participation_report(ext, book, f, columns)
        l == load_input(ext, book, f) IN
    IF ~first.made THEN first
    ELSE IF l.outcome = "error"
    THEN [calls |-> first.calls \o l.calls, made |-> FALSE, error |-> l.error,
          temp_xlsx |-> "exists"]
    ELSE IF columns # "performance"
    THEN [calls |-> first.calls \o l.calls, made |-> FALSE,
          error |-> "Required column not found", temp_xlsx |-> "exists"]
    ELSE [calls |-> first.calls \o l.calls, made |-> TRUE, error |-> "none",
          temp_xlsx |-> "removed"]

Actions == {"none", "participation", "performance", "weekly"}

Sniffed == {"excel", "csv", "unknown"}

UploadBooks ==
    {[opens |-> TRUE, sheets |-> <<"Sheet1">>, error |-> "none"]}
    \cup {[opens |-> FALSE, sheets |-> <<>>, error |-> e] : e \in ExcelErrors}

\* the files of the uploads: utf-8 decodes or not, one outcome for the four
\* separators and one for the auto-detection
UploadFiles ==
    {f \in SourceFiles : "cp1252" \in f.decodes /\ f.parse[","] = f.parse[";"]}

Columns == {"none", "participation", "performance"}

NoUpload ==
    [read_as_csv |-> FALSE, checks |-> <<>>, temp_csv |-> "none", temp_xlsx |-> "none",
     handed |-> "none", calls |-> <<>>, made |-> FALSE, error |-> "none",
     response |-> "none", flash |-> "none"]

InitUpload ==
    /\ pc = "request"
    /\ \/ /\ source \in [attached : {TRUE}, ext : Extensions, sniffed : Sniffed,
                         book : UploadBooks, columns : Columns]
          /\ file \in UploadFiles
          /\ report \in Actions
       \/ /\ source = [attached |-> FALSE, ext |-> "csv", sniffed |-> "csv",
                       book |-> CHOOSE b \in UploadBooks : b.opens, columns |-> "none"]
          /\ file \in {f \in UploadFiles : \A s \in Separators : f.parse[s] = "raise"}
          /\ report \in Actions
    /\ run = NoUpload
    /\ peek = FALSE
    /\ tried = <<>>
    /\ loaded = "none"
    /\ cell = NullCell
    /\ labels = NoLabels
    /\ table = <<>>
    /\ pivots = <<>>
    /\ content = <<>>
    /\ kind = "none"
    /\ headers = <<>>
    /\ roles = <<>>

Flash(message) == [run EXCEPT !.response = "redirect", !.flash = message]

\* lines 229-264: the checks of the request, then file.save(input_path)
Receive ==
    /\ pc = "request"
    /\ IF ~source.attached
       THEN run' = Flash("No file") /\ pc' = "responded"
       ELSE IF report = "none"
       THEN run' = Flash("Please select a report type") /\ pc' = "responded"
       ELSE IF source.ext \notin {"csv", "xlsx", "xls"}
       THEN run' = Flash("Unsupported file format") /\ pc' = "responded"
       ELSE run' = run /\ pc' = "saved"
    /\ UNCHANGED IdleSource

\* lines 266-321
Validate ==
    /\ pc = "saved"
    /\ LET v == validate_input(source.ext, source.sniffed, source.book, file) IN
       IF v.flash # "none"
       THEN /\ run' = [Flash(v.flash) EXCEPT !.checks = v.checks]
            /\ pc' = "responded"
       ELSE /\ run' = [run EXCEPT !.checks = v.checks, !.read_as_csv = v.read_as_csv]
            /\ pc' = "validated"
    /\ UNCHANGED IdleSource

\* lines 326-362: the temporary .csv copy, the generator of the action, the
\* removal of the copy in the finally clause
Generate ==
    /\ pc = "validated"
    /\ LET copied == run.read_as_csv /\ source.ext \in {"xlsx", "xls"}
           handed == IF copied THEN "csv" ELSE source.ext
           g == IF report = "participation"
                THEN generate_participation_report(handed, source.book, file, source.columns)
                ELSE generate_performance_report(handed, source.book, file, source.columns) IN
       IF report \in {"participation", "performance"}
       THEN run' = [run EXCEPT !.temp_csv = IF copied THEN "removed" ELSE "none",
                               !.temp_xlsx = g.temp_xlsx,
                               !.handed = handed, !.calls = g.calls,
                               !.made = g.made, !.error = g.error]
       ELSE run' = [run EXCEPT !.temp_csv = IF copied THEN "removed" ELSE "none"]
    /\ pc' = "generated"
    /\ UNCHANGED IdleSource

\* the response without the check of the action at line 364
RespondWithoutActionCheck ==
    /\ pc = "generated"
    /\ IF run.error # "none" THEN run' = Flash(run.error)
       ELSE run' = [run EXCEPT !.response = "download"]
    /\ pc' = "responded"
    /\ UNCHANGED IdleSource

\* lines 364-401: the response.  An exception of the generator reaches the
\* except clauses (389-401), which flash its message; a missing report file
\* raises FileNotFoundError (369-370) into the same clauses
Respond ==
    /\ pc = "generated"
    /\ IF run.error # "none" THEN run' = Flash(run.error)
       ELSE IF report \notin {"participation", "performance"}
       THEN run' = Flash("Invalid action selected")
       ELSE IF ~run.made
       THEN run' = Flash("Report file was not created")
       ELSE run' = [run EXCEPT !.response = "download"]
    /\ pc' = "responded"
    /\ UNCHANGED IdleSource

NextUpload == Receive \/ Validate \/ Generate \/ Respond

SpecUpload == InitUpload /\ [][NextUpload]_vars

----------------------------------------------------------------------------
(* Properties of the upload handler (SpecUpload).                          *)

Spreadsheet == source.ext \in {"xlsx", "xls"}

Validated == pc \in {"validated", "generated"} \/ (pc = "responded" /\ run.checks # <<>>)

Generated == pc \in {"generated", "responded"} /\ run.handed # "none"

\* the generator called the text loader and nothing else
OnlyCsvCalls == \A i \in 1..Len(run.calls) : run.calls[i] = CallCsv

\* C16: a file with a spreadsheet extension that is sniffed as delimited text
\* is validated with the text loader and handed to the generator as a
\* temporary .csv copy, the spreadsheet reader never being called on it; one
\* sniffed as spreadsheet or unknown is tried with the spreadsheet reader
\* first and read as text only after a corruption error; a .csv file is
\* always read as text, whatever was sniffed.
C16_UploadRouting ==
    /\ (Validated /\ Spreadsheet /\ source.sniffed = "csv") =>
          /\ run.checks = <<CallCsvPeek>>
          /\ run.read_as_csv <=> read_csv_with_encoding(file, TRUE) = "table"
          /\ Generated => (run.handed = "csv" /\ run.temp_csv # "none" /\ OnlyCsvCalls)
    /\ (Validated /\ Spreadsheet /\ source.sniffed # "csv") =>
          /\ run.checks[1] = CallExcelPeek
          /\ run.read_as_csv =>
                /\ ~source.book.opens
                /\ IsCorruption(ExcelError(source.book.error))
                /\ run.checks = <<CallExcelPeek, CallCsvPeek>>
          /\ (Generated /\ ~run.read_as_csv) =>
                (run.handed = source.ext /\ run.temp_csv = "none" /\ run.calls[1] = CallExcel)
          /\ (Generated /\ run.read_as_csv) => (run.handed = "csv" /\ OnlyCsvCalls)
    /\ (Validated /\ source.ext = "csv") =>
          /\ run.checks = <<CallCsvPeek>>
          /\ run.read_as_csv <=> read_csv_with_encoding(file, TRUE) = "table"
          /\ Generated => (run.handed = "csv" /\ run.temp_csv = "none" /\ OnlyCsvCalls)

\* C16 witness: a workbook named .xlsx whose content is sniffed as delimited
\* text went to the generator as a .csv copy without the reader being tried
C16_Witness ==
    /\ pc = "responded"
    /\ source.ext = "xlsx"
    /\ source.sniffed = "csv"
    /\ source.book.opens
    /\ run.handed = "csv"
    /\ run.temp_csv = "removed"
    /\ run.calls # <<>>

\* C23: when a generation has ended, in success or in an error, neither the
\* temporary .csv copy of upload_file nor the '_temp.xlsx' workbook of the
\* performance report exists any more.
C23_TempFilesRemoved ==
    pc \in {"generated", "responded"} =>
        (run.temp_csv # "exists" /\ run.temp_xlsx # "exists")

\* C30: every request ends in exactly one of two responses: the download of
\* a report that exists, sent only after the generator of a participation or
\* performance action ran to its end without an error, or a redirect to the
\* index page with a flashed error message, whatever failed before; until then
\* no response is sent.
C30_DownloadOrRedirect ==
    /\ pc \in {"request", "saved", "validated", "generated", "responded"}
    /\ pc # "responded" => run.response = "none"
    /\ pc = "responded" =>
          \/ /\ run.response = "download"
             /\ run.flash = "none"
             /\ report \in {"participation", "performance"}
             /\ run.handed # "none"
             /\ run.made
             /\ run.error = "none"
          \/ /\ run.response = "redirect"
             /\ run.flash # "none"

\* C30 witness: a performance report was sent as a download for a workbook
\* name whose content went to the generator as a temporary .csv copy
C30_Witness ==
    /\ pc = "responded"
    /\ run.response = "download"
    /\ report = "performance"
    /\ Spreadsheet
    /\ run.temp_csv = "removed"
    /\ run.made

----------------------------------------------------------------------------
(* The column resolver: how the three generators find their columns in the *)
(* header row.  A header is named by its text; Chars gives its characters. *)

\* the characters of the headers and keywords of the model
Chars(s) ==
    CASE s = "Department" ->
            <<"D", "e", "p", "a", "r", "t", "m", "e", "n", "t">>
      [] s = "Sub Department" ->
            <<"S", "u", "b", " ", "D", "e", "p", "a", "r", "t", "m", "e", "n", "t">>
      [] s = "Status Notes" ->
            <<"S", "t", "a", "t", "u", "s", " ", "N", "o", "t", "e", "s">>
      [] s = "Status of Test" ->
            <<"S", "t", "a", "t", "u", "s", " ", "o", "f", " ", "T", "e", "s", "t">>
      [] s = "Maximum Score" ->
            <<"M", "a", "x", "i", "m", "u", "m", " ", "S", "c", "o", "r", "e">>
      [] s = "Email" ->
            <<"E", "m", "a", "i", "l">>
      [] s = "Name" ->
            <<"N", "a", "m", "e">>
      [] s = "Test Status" ->
            <<"T", "e", "s", "t", " ", "S", "t", "a", "t", "u", "s">>
      [] s = "Test Duration" ->
            <<"T", "e", "s", "t", " ", "D", "u", "r", "a", "t", "i", "o", "n">>
      [] s = "Quiz Max Score" ->
            <<"Q", "u", "i", "z", " ", "M", "a", "x", " ", "S", "c", "o", "r", "e">>
      [] s = "Quiz Student Score" ->
            <<"Q", "u", "i", "z", " ", "S", "t", "u", "d", "e", "n", "t", " ", "S", "c", "o", "r", "e">>
      [] s = "Quiz Total Percentage" ->
            <<"Q", "u", "i", "z", " ", "T", "o", "t", "a", "l", " ", "P", "e", "r", "c", "e", "n", "t", "a", "g", "e">>
      [] s = "Department Quiz Max Score" ->
            <<"D", "e", "p", "a", "r", "t", "m", "e", "n", "t", " ", "Q", "u", "i", "z", " ", "M", "a", "x", " ", "S", "c", "o", "r", "e">>
      [] s = "Department Quiz Student Score" ->
            <<"D", "e", "p", "a", "r", "t", "m", "e", "n", "t", " ", "Q", "u", "i", "z", " ", "S", "t", "u", "d", "e", "n", "t", " ", "S", "c", "o", "r", "e">>
      [] s = "Department Quiz Total Percentage" ->
            <<"D", "e", "p", "a", "r", "t", "m", "e", "n", "t", " ", "Q", "u", "i", "z", " ", "T", "o", "t", "a", "l", " ", "P", "e", "r", "c", "e", "n", "t", "a", "g", "e">>
      [] s = "department" ->
            <<"d", "e", "p", "a", "r", "t", "m", "e", "n", "t">>
      [] s = "status" ->
            <<"s", "t", "a", "t", "u", "s">>
      [] s = "test" ->
            <<"t", "e", "s", "t">>
      [] s = "test status" ->
            <<"t", "e", "s", "t", " ", "s", "t", "a", "t", "u", "s">>
      [] s = "duration" ->
            <<"d", "u", "r", "a", "t", "i", "o", "n">>
      [] s = "max" ->
            <<"m", "a", "x">>
      [] s = "score" ->
            <<"s", "c", "o", "r", "e">>
      [] s = "max score" ->
            <<"m", "a", "x", " ", "s", "c", "o", "r", "e">>
      [] s = "name" ->
            <<"n", "a", "m", "e">>
      [] s = "total percentage" ->
            <<"t", "o", "t", "a", "l", " ", "p", "e", "r", "c", "e", "n", "t", "a", "g", "e">>
      [] s = "student score" ->
            <<"s", "t", "u", "d", "e", "n", "t", " ", "s", "c", "o", "r", "e">>
      [] s = "EMAIL" -> <<"E", "M", "A", "I", "L">>
      [] s = "NAME" -> <<"N", "A", "M", "E">>
      [] s = "Student Name" ->
            <<"S", "t", "u", "d", "e", "n", "t", " ", "N", "a", "m", "e">>
      [] s = "Total Percentage" ->
            <<"T", "o", "t", "a", "l", " ", "P", "e", "r", "c", "e", "n", "t", "a", "g", "e">>
      [] s = "Category" -> <<"C", "a", "t", "e", "g", "o", "r", "y">>
      [] s = "Portal Status" ->
            <<"P", "o", "r", "t", "a", "l", " ", "S", "t", "a", "t", "u", "s">>
      [] s = "Attempt Status" ->
            <<"A", "t", "t", "e", "m", "p", "t", " ", "S", "t", "a", "t", "u", "s">>
      [] s = "email" -> <<"e", "m", "a", "i", "l">>
      [] s = "" -> <<>>
      [] s = "Quiz" -> <<"Q", "u", "i", "z">>
      [] s = "Department Quiz" ->
            <<"D", "e", "p", "a", "r", "t", "m", "e", "n", "t", " ", "Q", "u", "i", "z">>
      [] s = "Student Score" ->
            <<"S", "t", "u", "d", "e", "n", "t", " ", "S", "c", "o", "r", "e">>
      [] s = "Quiz  Student Score" ->
            <<"Q", "u", "i", "z", " ", " ", "S", "t", "u", "d", "e", "n", "t", " ", "S", "c", "o", "r", "e">>

Missing == "<missing>"

\* str(col).lower()
ColLower(h) == Lower(Chars(h))

\* keyword in col_lower
Has(h, keyword) == Contains(ColLower(h), Chars(keyword))

\* the first and the last index of a set of indices, 0 for the empty set
FirstIndex(I) == IF I = {} THEN 0 ELSE CHOOSE i \in I : \A j \in I : i <= j

LastIndex(I) == IF I = {} THEN 0 ELSE CHOOSE i \in I : \A j \in I : j <= i

\* the header at an index, Missing for the index 0
At(H, i) == IF i = 0 THEN Missing ELSE H[i]

\* _get_column(df, keywords): the index of the column, 0 when it raises
get_column(H, keywords) ==
    FirstIndex({i \in DOMAIN H : \A k \in keywords : Has(H[i], k)})

\* _find_related_column without the early return of line 300-301: the first
\* candidate is taken whatever follows it
find_related_column_firstcandidate(H, base_prefix, suffix) ==
    LET base_lower == Lower(Strip(base_prefix))
        suffix_lower == Lower(Strip(Chars(suffix)))
        exact_name == Lower(Strip(base_prefix \o <<" ">> \o Chars(suffix)))
        ColStripped(h) == Lower(Strip(Chars(h)))
        Leading(h) == RStrip(SubSeq(ColStripped(h), 1, Len(ColStripped(h)) - Len(suffix_lower)))
        Candidate(h) ==
            /\ EndsWith(ColStripped(h), suffix_lower)
            /\ base_lower # <<>> => Contains(Leading(h), base_lower)
        exact == FirstIndex({i \in DOMAIN H : ColStripped(H[i]) = exact_name})
    IN  IF exact # 0 THEN exact
        ELSE FirstIndex({i \in DOMAIN H : Candidate(H[i])})

\* _find_related_column(df, base_prefix, suffix): the index of the column, 0
\* when it raises; base_prefix is a text, suffix a keyword
find_related_column(H, base_prefix, suffix) ==
    LET base_lower == Lower(Strip(base_prefix))
        suffix_lower == Lower(Strip(Chars(suffix)))
        exact_name == Lower(Strip(base_prefix \o <<" ">> \o Chars(suffix)))
        ColStripped(h) == Lower(Strip(Chars(h)))
        Leading(h) == RStrip(SubSeq(ColStripped(h), 1, Len(ColStripped(h)) - Len(suffix_lower)))
        Exact(h) == ColStripped(h) = exact_name
        SamePrefix(h) ==
            EndsWith(ColStripped(h), suffix_lower) /\ base_lower # <<>> /\ Leading(h) = base_lower
        Candidate(h) ==
            /\ EndsWith(ColStripped(h), suffix_lower)
            /\ base_lower # <<>> => Contains(Leading(h), base_lower)
        exact == FirstIndex({i \in DOMAIN H : Exact(H[i])})
        same == FirstIndex({i \in DOMAIN H : SamePrefix(H[i])})
    IN  IF exact # 0 THEN exact
        ELSE IF same # 0 THEN same
        ELSE FirstIndex({i \in DOMAIN H : Candidate(H[i])})

\* _create_participation_pivot, lines 221-233: the loop has no break, every
\* matching header overwrites the one before
participation_columns(H) ==
    LET IsDepartment(h) == Has(h, "department")
        IsStatus(h) == Has(h, "test status") \/ Has(h, "status")
        dept == LastIndex({i \in DOMAIN H : IsDepartment(H[i])})
        status == LastIndex({i \in DOMAIN H : IsStatus(H[i])}) IN
    [error |-> IF dept = 0 \/ status = 0
               THEN "Required columns 'Department' and 'Test Status' not found"
               ELSE "none",
     department |-> IF dept = 0 \/ status = 0 THEN Missing ELSE H[dept],
     status |-> IF dept = 0 \/ status = 0 THEN Missing ELSE H[status]]

\* generate_performance_report, lines 136-181
performance_columns(H) ==
    LET IsStatus(h) == Has(h, "test status") \/ (Has(h, "status") /\ Has(h, "test"))
        IsDepartment(h) == Has(h, "department")
        status == FirstIndex({i \in DOMAIN H : IsStatus(H[i])})
        percentage ==
            FirstIndex({i \in DOMAIN H : i > status /\ Has(H[i], "total percentage")})
        dept == FirstIndex({i \in DOMAIN H : IsDepartment(H[i])})
        error == IF status = 0 THEN "Required column 'Test Status' not found"
                 ELSE IF percentage = 0 THEN "Column containing 'total percentage' not found"
                 ELSE IF dept = 0 THEN "Required column 'Department' not found"
                 ELSE "none" IN
    [error |-> error,
     department |-> IF error = "none" THEN H[dept] ELSE Missing,
     status |-> IF error = "none" THEN H[status] ELSE Missing]

\* max_score_col[:max_score_col.lower().rfind('max score')].strip(); a slice
\* that ends at -1 leaves out the last character
base_prefix(max_score_col) ==
    LET at == RFind(ColLower(max_score_col), Chars("max score"))
        text == Chars(max_score_col) IN
    Strip(SubSeq(text, 1, IF at < 0 THEN Len(text) - 1 ELSE at))

\* the header the weekly summaries group by: _get_column(df, ['department'])
\* on the frame _process_overall_data returns, whose key columns (Test
\* Status, Max Score, Student Score, Total Percentage) come first
weekly_department(H, key) ==
    LET IsDepartment(h) == Has(h, "department")
        IsRest(h) == \A i \in 1..Len(key) : key[i] # h
        ordered == key \o SelectSeq(H, IsRest) IN
    At(ordered, FirstIndex({i \in DOMAIN ordered : IsDepartment(ordered[i])}))

\* _process_overall_data, lines 112-119, and _add_div_wise_performance_summary,
\* line 322
weekly_columns(H) ==
    LET name == get_column(H, {"name"})
        status == get_column(H, {"test", "status"})
        duration == get_column(H, {"test", "duration"})
        max_score == get_column(H, {"max", "score"})
        prefix == IF max_score = 0 THEN <<>> ELSE base_prefix(H[max_score])
        student == find_related_column(H, prefix, "student score")
        total == find_related_column(H, prefix, "total percentage")
        found == name # 0 /\ status # 0 /\ duration # 0 /\ max_score # 0
                    /\ student # 0 /\ total # 0
        dept == IF found
                THEN weekly_department(H, <<H[status], H[max_score], H[student], H[total]>>)
                ELSE Missing
        error == IF name = 0 THEN "Required column containing keywords ['name'] not found."
                 ELSE IF status = 0
                 THEN "Required column containing keywords ['test', 'status'] not found."
                 ELSE IF duration = 0
                 THEN "Required column containing keywords ['test', 'duration'] not found."
                 ELSE IF max_score = 0
                 THEN "Required column containing keywords ['max', 'score'] not found."
                 ELSE IF student = 0 THEN "Expected column matching 'student score' not found"
                 ELSE IF total = 0 THEN "Expected column matching 'total percentage' not found"
                 ELSE IF dept = Missing
                 THEN "Required column containing keywords ['department'] not found."
                 ELSE "none" IN
    [error |-> error,
     department |-> IF error = "none" THEN dept ELSE Missing,
     status |-> IF error = "none" THEN H[status] ELSE Missing,
     max_score |-> IF name # 0 /\ status # 0 /\ duration # 0 THEN At(H, max_score)
                   ELSE Missing,
     prefix |-> IF name # 0 /\ status # 0 /\ duration # 0 THEN prefix ELSE <<>>]

\* the headers a table may have beside those of a frame
HeaderPool ==
    {"Department", "Sub Department", "Status Notes", "Status of Test", "Maximum Score", "Email"}

\* the columns of a weekly export, for a test named Quiz and one named
\* Department Quiz
WeeklyFrame ==
    <<"Name", "Test Status", "Test Duration",
      "Quiz Max Score", "Quiz Student Score", "Quiz Total Percentage">>

DepartmentQuizFrame ==
    <<"Name", "Test Status", "Test Duration", "Department Quiz Max Score",
      "Department Quiz Student Score", "Department Quiz Total Percentage">>

\* H with the header x put in after its i-th header
InsertAt(H, x, i) == SubSeq(H, 1, i) \o <<x>> \o SubSeq(H, i + 1, Len(H))

RECURSIVE Grow(_, _)
\* the header rows made from those of S by putting in up to n further headers
Grow(S, n) ==
    IF n = 0 THEN S
    ELSE Grow(S \cup UNION {{InsertAt(H, x, i) : x \in HeaderPool, i \in 0..Len(H)} : H \in S},
              n - 1)

\* header rows without a repeated header (pandas renames duplicates)
HeaderRows(n) ==
    {H \in Grow({<<>>, <<"Test Status">>, WeeklyFrame, DepartmentQuizFrame}, n) :
        H # <<>> /\ \A i, j \in 1..Len(H) : H[i] = H[j] => i = j}

NoRoles == [error |-> "not run", department |-> Missing, status |-> Missing]

InitResolve ==
    /\ pc = "table"
    /\ report \in Reports
    /\ headers \in HeaderRows(MaxExtra)
    /\ roles = [participation |-> NoRoles, own |-> NoRoles]
    /\ source = <<>>
    /\ run = <<>>
    /\ content = <<>>
    /\ kind = "none"
    /\ cell = NullCell
    /\ labels = NoLabels
    /\ table = <<>>
    /\ pivots = <<>>
    /\ file = <<>>
    /\ peek = FALSE
    /\ tried = <<>>
    /\ loaded = "none"

IdleResolve == <<report, headers, source, run, content, kind, cell, labels, table,
                 pivots, file, peek, tried, loaded>>

\* generate_participation_report: the columns of the Participation Summary
ResolveParticipation ==
    /\ pc = "table"
    /\ report = "participation"
    /\ roles' = [participation |-> participation_columns(headers), own |-> NoRoles]
    /\ pc' = IF roles'.participation.error = "none" THEN "resolved" ELSE "raised"
    /\ UNCHANGED IdleResolve

\* generate_performance_report: the participation report first (line 102),
\* then the columns of the Performance Summary
ResolvePerformance ==
    /\ pc = "table"
    /\ report = "performance"
    /\ LET first == participation_columns(headers) IN
       roles' = [participation |-> first,
                 own |-> IF first.error = "none" THEN performance_columns(headers)
                         ELSE NoRoles]
    /\ pc' = IF roles'.own.error = "none" THEN "resolved" ELSE "raised"
    /\ UNCHANGED IdleResolve

\* generate_parul_weekly_report
ResolveWeekly ==
    /\ pc = "table"
    /\ report = "weekly"
    /\ roles' = [participation |-> NoRoles, own |-> weekly_columns(headers)]
    /\ pc' = IF roles'.own.error = "none" THEN "resolved" ELSE "raised"
    /\ UNCHANGED IdleResolve

NextResolve == ResolveParticipation \/ ResolvePerformance \/ ResolveWeekly

SpecResolve == InitResolve /\ [][NextResolve]_vars

----------------------------------------------------------------------------
(* Properties of the column resolver (SpecResolve).                        *)

\* the first header, in header order, whose lowercase text contains every
\* keyword of K; Missing when no header does
FirstHeaderWith(K) ==
    IF \E i \in 1..Len(headers) : \A k \in K : Has(headers[i], k)
    THEN headers[CHOOSE i \in 1..Len(headers) :
                    /\ \A k \in K : Has(headers[i], k)
                    /\ \A j \in 1..(i - 1) : \E k \in K : ~Has(headers[j], k)]
    ELSE Missing

\* the resolutions made by the run: that of the Participation Summary and
\* that of the generator's own sheets
Resolutions ==
    {r \in {roles.participation, roles.own} : r.error # "not run"}

\* C17: the Test Status role, defined by the keywords 'test' and 'status',
\* resolves to the first header that contains both; when no header contains
\* both, the resolution fails and no column is returned for the role.
C17_AllKeywordsFirstMatch ==
    pc # "table" =>
        \A r \in Resolutions :
            /\ r.error = "none" => r.status = FirstHeaderWith({"test", "status"})
            /\ FirstHeaderWith({"test", "status"}) = Missing =>
                  (r.error # "none" /\ r.status = Missing)

\* C18: in every generator the Department role resolves to the first header
\* that contains 'department', which is the grouping column of the pivot.
C18_DepartmentFirstMatch ==
    pc # "table" =>
        \A r \in Resolutions :
            r.error = "none" => r.department = FirstHeaderWith({"department"})

\* C19: a header that contains 'status' without 'test' is chosen for the Test
\* Status role only if no header contains the phrase 'test status', whatever
\* the order of the headers.
C19_PhraseBeforeLoneStatus ==
    pc # "table" =>
        \A r \in Resolutions :
            (r.error = "none" /\ ~Has(r.status, "test")) =>
                \A i \in 1..Len(headers) : ~Has(headers[i], "test status")

\* C20: in the weekly report the header resolved for MaxScore contains the
\* phrase 'max score', and the prefix is the part of that header before the
\* phrase, without surrounding blanks.
C20_MaxScorePrefix ==
    (pc # "table" /\ report = "weekly" /\ roles.own.max_score # Missing) =>
        /\ Has(roles.own.max_score, "max score")
        /\ \E i \in 0..Len(Chars(roles.own.max_score)) :
              /\ SubSeq(ColLower(roles.own.max_score), i + 1, i + 9) = Chars("max score")
              /\ roles.own.prefix = Strip(SubSeq(Chars(roles.own.max_score), 1, i))

----------------------------------------------------------------------------
(* The related-column lookup on its own: _find_related_column applied to a *)
(* header row, a prefix and a suffix.  source holds the two arguments.     *)

\* the headers of the rows the lookup is given
RelatedPool ==
    {"Quiz Student Score", "Quiz  Student Score", "Department Quiz Student Score",
     "Student Score", "Quiz Total Percentage", "Name"}

RelatedPrefixes == {"", "Quiz", "Department Quiz"}

RelatedSuffixes == {"student score", "total percentage"}

\* header rows of up to n headers of the pool, none repeated
RelatedRows(n) ==
    {H \in UNION {[1..k -> RelatedPool] : k \in 1..n} :
        \A i, j \in 1..Len(H) : H[i] = H[j] => i = j}

InitRelated ==
    /\ pc = "lookup"
    /\ headers \in RelatedRows(MaxHeaders)
    /\ source \in [base_prefix : RelatedPrefixes, suffix : RelatedSuffixes]
    /\ roles = [error |-> "not run", column |-> Missing]
    /\ report = "weekly"
    /\ run = <<>>
    /\ content = <<>>
    /\ kind = "none"
    /\ cell = NullCell
    /\ labels = NoLabels
    /\ table = <<>>
    /\ pivots = <<>>
    /\ file = <<>>
    /\ peek = FALSE
    /\ tried = <<>>
    /\ loaded = "none"

\* _find_related_column(df, base_prefix, suffix), lines 281-310
FindRelated ==
    /\ pc = "lookup"
    /\ LET i == find_related_column(headers, Chars(source.base_prefix), source.suffix) IN
       /\ roles' = [error |-> IF i = 0 THEN "Expected column not found in the dataset."
                              ELSE "none",
                    column |-> At(headers, i)]
       /\ pc' = IF i = 0 THEN "raised" ELSE "returned"
    /\ UNCHANGED <<report, headers, source, run, content, kind, cell, labels, table,
                   pivots, file, peek, tried, loaded>>

NextRelated == FindRelated

SpecRelated == InitRelated /\ [][NextRelated]_vars

----------------------------------------------------------------------------
(* Properties of the related-column lookup (SpecRelated).                  *)

\* the lowercase form of a header, and of '<prefix> <suffix>'
RelatedName(h) == Lower(Strip(Chars(h)))

WantedName == Lower(Strip(Chars(source.base_prefix) \o <<" ">> \o Chars(source.suffix)))

EndsWithSuffix(h) == EndsWith(RelatedName(h), Chars(source.suffix))

\* the part of a header before the suffix
BeforeSuffix(h) ==
    SubSeq(RelatedName(h), 1, Len(RelatedName(h)) - Len(Chars(source.suffix)))

\* the tier a header matches in, 0 when it matches in none: 1 the exact
\* name, 2 the suffix after a part that contains the prefix, 3 the suffix
\* alone when the prefix is empty
ClaimedTier(h) ==
    IF RelatedName(h) = WantedName THEN 1
    ELSE IF ~EndsWithSuffix(h) THEN 0
    ELSE IF source.base_prefix = "" THEN 3
    ELSE IF Contains(BeforeSuffix(h), Lower(Chars(source.base_prefix))) THEN 2
    ELSE 0

\* the tiers with one more between 1 and 2: the suffix after exactly the
\* prefix, blanks between them aside
ActualTier(h) ==
    IF RelatedName(h) = WantedName THEN 1
    ELSE IF ~EndsWithSuffix(h) THEN 0
    ELSE IF source.base_prefix = "" THEN 4
    ELSE IF RStrip(BeforeSuffix(h)) = Lower(Chars(source.base_prefix)) THEN 2
    ELSE IF Contains(BeforeSuffix(h), Lower(Chars(source.base_prefix))) THEN 3
    ELSE 0

\* C21: the lookup applies the tiers exact name, suffix with the prefix in
\* the leading part, suffix alone for an empty prefix; a header of an
\* earlier tier wins over one of a later tier, within a tier the first
\* header wins, and the lookup fails when no header matches in any tier.
C21_TiersInOrder ==
    pc \in {"returned", "raised"} =>
        IF \A i \in 1..Len(headers) : ClaimedTier(headers[i]) = 0
        THEN pc = "raised"
        ELSE /\ pc = "returned"
             /\ \E i \in 1..Len(headers) :
                   /\ headers[i] = roles.column
                   /\ ClaimedTier(headers[i]) # 0
                   /\ \A j \in 1..Len(headers) :
                         ClaimedTier(headers[j]) # 0 =>
                            \/ ClaimedTier(headers[i]) < ClaimedTier(headers[j])
                            \/ ClaimedTier(headers[i]) = ClaimedTier(headers[j]) /\ i <= j

\* C21 as amended: the same with a tier of its own, between the exact name
\* and the prefix in the leading part, for a header that is the prefix
\* followed by the suffix whatever the blanks between them.
C21_TiersWithSamePrefix ==
    pc \in {"returned", "raised"} =>
        IF \A i \in 1..Len(headers) : ActualTier(headers[i]) = 0
        THEN pc = "raised"
        ELSE /\ pc = "returned"
             /\ \E i \in 1..Len(headers) :
                   /\ headers[i] = roles.column
                   /\ ActualTier(headers[i]) # 0
                   /\ \A j \in 1..Len(headers) :
                         ActualTier(headers[j]) # 0 =>
                            \/ ActualTier(headers[i]) < ActualTier(headers[j])
                            \/ ActualTier(headers[i]) = ActualTier(headers[j]) /\ i <= j

\* the lookup returned a header of the prefix-then-suffix tier that stands
\* after a header with the prefix in its leading part
C21_Witness ==
    /\ pc = "returned"
    /\ ActualTier(roles.column) = 2
    /\ \E i, j \in 1..Len(headers) :
          i < j /\ headers[j] = roles.column /\ ActualTier(headers[i]) = 3

----------------------------------------------------------------------------
(* The frames of the generators: the columns of the loaded table, the      *)
(* columns the generators derive and put in, and the column the pivots     *)
(* count.  A column is its header and what its cells hold: the cells of    *)
(* the loaded column of that name, or values the generator computed.       *)

Column(h) == [name |-> h, cells |-> h]

Derived(h) == [name |-> h, cells |-> "computed"]

\* the frame of the table as loaded
Frame(H) == [i \in DOMAIN H |-> Column(H[i])]

ColumnNames(F) == [i \in DOMAIN F |-> F[i].name]

\* insert_category with the percentage column looked for from the first
\* header on, not from the header after Test Status
insert_category_fromfirst(H) ==
    LET IsStatus(h) == Has(h, "test status") \/ (Has(h, "status") /\ Has(h, "test"))
        status_idx == FirstIndex({i \in DOMAIN H : IsStatus(H[i])})
        percentage_idx ==
            IF status_idx = 0 THEN 0
            ELSE FirstIndex({i \in DOMAIN H : Has(H[i], "total percentage")})
        cols_before == SubSeq(Frame(H), 1, percentage_idx)
        cols_after == SubSeq(Frame(H), percentage_idx + 1, Len(H)) IN
    IF percentage_idx = 0 THEN Frame(H)
    ELSE cols_before \o <<Derived("Category")>> \o cols_after

\* generate_performance_report, lines 136-171: Category is put in right
\* after the percentage column; the frame as loaded when a lookup raises
insert_category(H) ==
    LET IsStatus(h) == Has(h, "test status") \/ (Has(h, "status") /\ Has(h, "test"))
        status_idx == FirstIndex({i \in DOMAIN H : IsStatus(H[i])})
        percentage_idx ==
            IF status_idx = 0 THEN 0
            ELSE FirstIndex({i \in DOMAIN H : i > status_idx /\ Has(H[i], "total percentage")})
        cols_before == SubSeq(Frame(H), 1, percentage_idx)
        cols_after == SubSeq(Frame(H), percentage_idx + 1, Len(H)) IN
    IF percentage_idx = 0 THEN Frame(H)
    ELSE cols_before \o <<Derived("Category")>> \o cols_after

\* _process_overall_data, lines 106-148: three derived columns, the key
\* columns first; the empty frame when a lookup raises
process_overall_data(H) ==
    LET name == get_column(H, {"name"})
        status == get_column(H, {"test", "status"})
        duration == get_column(H, {"test", "duration"})
        max_score == get_column(H, {"max", "score"})
        prefix == IF max_score = 0 THEN <<>> ELSE base_prefix(H[max_score])
        student == find_related_column(H, prefix, "student score")
        total == find_related_column(H, prefix, "total percentage")
        key_columns == <<Column(H[status]), Derived("Portal Status"), Derived("Attempt Status"),
                         Column(H[max_score]), Column(H[student]), Column(H[total]),
                         Derived("Category")>>
        IsRemaining(c) == \A i \in DOMAIN key_columns : key_columns[i].name # c.name IN
    IF name = 0 \/ status = 0 \/ duration = 0 \/ max_score = 0 \/ student = 0 \/ total = 0
    THEN <<>>
    ELSE key_columns \o SelectSeq(Frame(H), IsRemaining)

\* participation.py, lines 235-244, and performance.py, lines 184-192: the
\* first header that contains 'name', else the first header
name_column(F) ==
    LET i == FirstIndex({i \in DOMAIN F : Has(F[i].name, "name")}) IN
    IF i = 0 THEN F[1].name ELSE F[i].name

\* _get_count_column with 'Name' looked for before 'Email'
get_count_column_namefirst(F) ==
    LET Pick(col) ==
            IF \E i \in DOMAIN F : F[i].name = col
            THEN FirstIndex({i \in DOMAIN F : F[i].name = col})
            ELSE FirstIndex({i \in DOMAIN F : ColLower(F[i].name) = Lower(Chars(col))}) IN
    IF Pick("Name") # 0 THEN F[Pick("Name")].name
    ELSE IF Pick("name") # 0 THEN F[Pick("name")].name
    ELSE IF Pick("Email") # 0 THEN F[Pick("Email")].name
    ELSE IF Pick("email") # 0 THEN F[Pick("email")].name
    ELSE F[1].name

\* _get_count_column(df), lines 351-362
get_count_column(F) ==
    LET Pick(col) ==
            IF \E i \in DOMAIN F : F[i].name = col
            THEN FirstIndex({i \in DOMAIN F : F[i].name = col})
            ELSE FirstIndex({i \in DOMAIN F : ColLower(F[i].name) = Lower(Chars(col))}) IN
    IF Pick("Email") # 0 THEN F[Pick("Email")].name
    ELSE IF Pick("email") # 0 THEN F[Pick("email")].name
    ELSE IF Pick("Name") # 0 THEN F[Pick("Name")].name
    ELSE IF Pick("name") # 0 THEN F[Pick("name")].name
    ELSE F[1].name

\* the headers a table may have before and after those of a base row
FramePool == {"Email", "EMAIL", "Name", "NAME", "Student Name", "Total Percentage"}

FrameBases ==
    {<<"Department", "Test Status", "Test Duration",
       "Quiz Max Score", "Quiz Student Score", "Quiz Total Percentage">>,
     <<"Quiz Total Percentage", "Department", "Test Status">>,
     WeeklyFrame}

\* a base row with up to n headers of the pool before and after it
FrameRows(n) ==
    LET Extras == {E \in UNION {[1..k -> FramePool] : k \in 0..n} :
                      \A i, j \in 1..Len(E) : E[i] = E[j] => i = j} IN
    UNION {{SubSeq(E, 1, k) \o B \o SubSeq(E, k + 1, Len(E)) :
               k \in 0..Len(E), B \in FrameBases} : E \in Extras}

NoFrame == [error |-> "not run", frame |-> <<>>, count |-> Missing]

InitFrame ==
    /\ pc = "loaded"
    /\ report \in Reports
    /\ headers \in FrameRows(MaxExtra)
    /\ roles = [participation |-> NoFrame, own |-> NoFrame, files |-> {}]
    /\ source = <<>>
    /\ run = <<>>
    /\ content = <<>>
    /\ kind = "none"
    /\ cell = NullCell
    /\ labels = NoLabels
    /\ table = <<>>
    /\ pivots = <<>>
    /\ file = <<>>
    /\ peek = FALSE
    /\ tried = <<>>
    /\ loaded = "none"

\* the frame and the count column of the Participation Summary
participation_frame(H) ==
    LET error == participation_columns(H).error IN
    [error |-> error, frame |-> Frame(H),
     count |-> IF error = "none" THEN name_column(Frame(H)) ELSE Missing]

FrameParticipation ==
    /\ pc = "loaded"
    /\ report = "participation"
    /\ roles' = [participation |-> participation_frame(headers), own |-> NoFrame,
                 files |-> IF participation_frame(headers).error = "none"
                           THEN {"output"} ELSE {}]
    /\ pc' = IF roles'.participation.error = "none" THEN "written" ELSE "raised"
    /\ UNCHANGED IdleResolve

\* generate_performance_report: the participation report first, saved as
\* the '_temp.xlsx' workbook (line 102), then the frame with Category and the
\* count column of the Performance Summary; the output is saved and the
\* '_temp.xlsx' workbook removed at the end (lines 247-253)
FramePerformance ==
    /\ pc = "loaded"
    /\ report = "performance"
    /\ LET first == participation_frame(headers)
           error == performance_columns(headers).error IN
       roles' = [participation |-> first,
                 own |-> IF first.error # "none" THEN NoFrame
                         ELSE [error |-> error, frame |-> insert_category(headers),
                               count |-> IF error = "none"
                                         THEN name_column(insert_category(headers))
                                         ELSE Missing],
                 files |-> IF first.error # "none" THEN {}
                           ELSE IF error = "none" THEN {"output"} ELSE {"temp"}]
    /\ pc' = IF roles'.own.error = "none" THEN "written" ELSE "raised"
    /\ UNCHANGED IdleResolve

\* generate_parul_weekly_report: the processed frame, written to the output
\* as the sheet Overall Data (lines 199-200), then the department and the
\* count column of its summaries and the workbook saved again (line 256)
FrameWeekly ==
    /\ pc = "loaded"
    /\ report = "weekly"
    /\ LET error == weekly_columns(headers).error IN
       roles' = [participation |-> NoFrame,
                 own |-> [error |-> error, frame |-> process_overall_data(headers),
                          count |-> IF error = "none"
                                    THEN get_count_column(process_overall_data(headers))
                                    ELSE Missing],
                 files |-> IF process_overall_data(headers) = <<>> THEN {} ELSE {"output"}]
    /\ pc' = IF roles'.own.error = "none" THEN "written" ELSE "raised"
    /\ UNCHANGED IdleResolve

NextFrame == FrameParticipation \/ FramePerformance \/ FrameWeekly

SpecFrame == InitFrame /\ [][NextFrame]_vars

----------------------------------------------------------------------------
(* Properties of the frames (SpecFrame).                                   *)

\* the headers of a frame whose lowercase text equals a word
HeadersEqual(F, word) ==
    {F[i].name : i \in {j \in DOMAIN F : ColLower(F[j].name) = Chars(word)}}

\* the headers of a frame whose lowercase text contains a word
HeadersWith(F, word) == {F[i].name : i \in {j \in DOMAIN F : Has(F[j].name, word)}}

\* the header of S that stands first in the frame
FirstOf(F, S) == F[CHOOSE i \in DOMAIN F : F[i].name \in S /\ \A j \in 1..(i - 1) : F[j].name \notin S].name

C26_OnlyOneColumnAdded ==
    \A r \in {roles.participation, roles.own} :
        r.error = "none" =>
            LET IsLoaded(c) == c.cells # "computed" IN
            /\ ColumnNames(SelectSeq(r.frame, IsLoaded)) = headers
            /\ \A i \in DOMAIN r.frame :
                  IsLoaded(r.frame[i]) => r.frame[i].cells = r.frame[i].name
            /\ Cardinality({i \in DOMAIN r.frame : ~IsLoaded(r.frame[i])}) <= 1

\* the place of the Test Status column of the performance report in the
\* loaded headers, 0 when there is none
StatusPlace ==
    FirstIndex({i \in DOMAIN headers :
                   \/ Has(headers[i], "test status")
                   \/ Has(headers[i], "status") /\ Has(headers[i], "test")})

\* the places after Test Status of the headers that contain 'total percentage'
PercentagePlaces ==
    {i \in DOMAIN headers : i > StatusPlace /\ Has(headers[i], "total percentage")}

\* C27: the performance report takes as percentage column the first header
\* after the Test Status column that contains 'total percentage', never one
\* before it; it fails when no such header follows Test Status, and otherwise
\* Category stands right after the percentage column.
C27_PercentageAfterStatus ==
    (report = "performance" /\ roles.own.error # "not run" /\ StatusPlace # 0) =>
        IF PercentagePlaces = {}
        THEN /\ pc = "raised"
             /\ roles.own.error = "Column containing 'total percentage' not found"
        ELSE LET p == FirstIndex(PercentagePlaces) IN
             /\ roles.own.error # "Column containing 'total percentage' not found"
             /\ roles.own.frame[p].name = headers[p]
             /\ roles.own.frame[p + 1] = Derived("Category")
             /\ \A i \in DOMAIN roles.own.frame :
                   roles.own.frame[i].cells = "computed" => i = p + 1

\* a performance report was written from a table with a 'total percentage'
\* header before Test Status and another after it
C27_Witness ==
    /\ pc = "written"
    /\ report = "performance"
    /\ PercentagePlaces # {}
    /\ \E i \in 1..StatusPlace : Has(headers[i], "total percentage")

\* C24: a generation that aborts with a missing-column error has written no
\* workbook: neither the output nor an intermediate workbook exists.
C24_NoWorkbookOnAbort ==
    pc = "raised" => roles.files = {}

----------------------------------------------------------------------------
(* The Category column of the weekly report: _categorize_performance       *)
(* applied to the cells of the Total Percentage column (line 138).  table  *)
(* holds the cells of that column, labels the categories computed.         *)

\* scores next to the thresholds of the tiers, in hundredths
ScoreHundredths ==
    {0, 1, 24, 25, 49, 50, 74, 75, 99, 100, 101, 150,
     2499, 2500, 4999, 5000, 7499, 7500, 9999, 10000}

ScoreCells ==
    {IntCell(n) : n \in 0..MaxPct} \cup {FloatCell(h) : h \in ScoreHundredths}

InitScores ==
    /\ pc = "scores"
    /\ table \in [1..2 -> ScoreCells]
    /\ labels = <<>>
    /\ report = "weekly"
    /\ pivots = <<>>
    /\ cell = NullCell
    /\ file = <<>>
    /\ peek = FALSE
    /\ tried = <<>>
    /\ loaded = "none"
    /\ FrontIdle

\* df[category_col] = df[total_percentage_col].apply(_categorize_performance)
CategorizeScores ==
    /\ pc = "scores"
    /\ labels' = [i \in 1..Len(table) |-> weekly_categorize_performance(table[i])]
    /\ pc' = "categorized"
    /\ UNCHANGED <<table, report, pivots, cell>>
    /\ UNCHANGED IdleLoad
    /\ UNCHANGED IdleFront

NextScores == CategorizeScores

SpecScores == InitScores /\ [][NextScores]_vars

----------------------------------------------------------------------------
(* Properties of the Category column (SpecScores).                         *)

\* the value of a score cell in hundredths
HundredthsOf(c) == IF c.kind = "int" THEN 100 * c.val ELSE c.val

ValidScore(c) == HundredthsOf(c) >= 0 /\ HundredthsOf(c) <= 10000

\* the place of a tier in the order Intervention < Needs Attention <
\* Satisfactory < Good
TierRank(label) ==
    CASE label = "Intervention (0% - 25%)" -> 1
      [] label = "Needs Attention (25% - 50%)" -> 2
      [] label = "Satisfactory (50% - 75%)" -> 3
      [] label = "Good (75%+)" -> 4
      [] OTHER -> 0

\* C28: for two scores a <= b between 0 and 100 the tier of b is not lower
\* than the tier of a.
C28_Monotone ==
    pc = "categorized" =>
        \A i, j \in 1..Len(table) :
            (ValidScore(table[i]) /\ ValidScore(table[j])
                /\ HundredthsOf(table[i]) <= HundredthsOf(table[j])) =>
                TierRank(labels[i]) <= TierRank(labels[j])

\* C28 as amended: the same for two scores on the same side of 1, both at
\* most 1 (fractions) or both above 1 (percentages).
C28_MonotoneOnEachScale ==
    pc = "categorized" =>
        \A i, j \in 1..Len(table) :
            (ValidScore(table[i]) /\ ValidScore(table[j])
                /\ HundredthsOf(table[i]) <= HundredthsOf(table[j])
                /\ (HundredthsOf(table[i]) > 100 <=> HundredthsOf(table[j]) > 100)) =>
                (TierRank(labels[i]) # 0 /\ TierRank(labels[i]) <= TierRank(labels[j]))

\* two percentages above 1 in different tiers
C28_Witness ==
    /\ pc = "categorized"
    /\ HundredthsOf(table[1]) > 100
    /\ HundredthsOf(table[1]) < HundredthsOf(table[2])
    /\ ValidScore(table[2])
    /\ TierRank(labels[1]) # 0
    /\ TierRank(labels[1]) < TierRank(labels[2])

----------------------------------------------------------------------------
(* The report generators: the loaded table and the pivots built from it.   *)
(* A row holds the cells of the four columns the pivots read: Department,  *)
(* Test Status, Total Percentage and the count column (Name; Email or Name *)
(* in the weekly report).  Text columns hold a label or NA (null).         *)

NA == "<NA>"

\* a cell pandas leaves as NaN in a frame of counts
NaN == 0 - 1

GrandTotal == "Grand Total"

Departments == {"CSE", "ECE"}

Statuses == {"Completed", "In Progress"}

Names == {"Asha"}

PctCells == {NullCell, IntCell(80), TextCell(<<"a", "b", "c">>)}

Rows ==
    [dept : Departments \cup {NA}, status : Statuses \cup {NA},
     pct : PctCells, name : Names \cup {NA}]

Tables == UNION {[1..n -> Rows] : n \in 1..MaxRows}

\* every label of the model in the order Python sorts text
Alphabetical ==
    <<"CSE", "Completed", "ECE", "Good", "Good (75%+)", "In Progress",
      "Intervention", "Intervention (0% - 25%)", "Invalid Score",
      "Need Attention", "Needs Attention (25% - 50%)", "Not Attended",
      "Not Started", "Satisfactory", "Satisfactory (50% - 75%)">>

\* sorted(S)
Sorted(S) ==
    LET Member(x) == x \in S IN SelectSeq(Alphabetical, Member)

Range(seq) == {seq[i] : i \in 1..Len(seq)}

RECURSIVE SumRow(_, _, _)
\* the sum of val[r][c] over the columns cols
SumRow(val, r, cols) ==
    IF cols = <<>> THEN 0
    ELSE val[r][Head(cols)] + SumRow(val, r, Tail(cols))

RECURSIVE SumColumn(_, _, _)
\* the sum of val[r][c] over the rows index
SumColumn(val, index, c) ==
    IF index = <<>> THEN 0
    ELSE val[Head(index)][c] + SumColumn(val, Tail(index), c)

\* the three columns handed to pd.pivot_table: index, columns, values
StatusData(tbl) ==
    [i \in 1..Len(tbl) |-> [key |-> tbl[i].dept, cat |-> tbl[i].status, val |-> tbl[i].name]]

\* df['Category'] = df[percentage_col].apply(_categorize_performance)
PerformanceData(tbl) ==
    [i \in 1..Len(tbl) |->
        [key |-> tbl[i].dept, cat |-> categorize_performance(tbl[i].pct), val |-> tbl[i].name]]

\* df[category_col] = df[total_percentage_col].apply(_categorize_performance)
WeeklyData(tbl) ==
    [i \in 1..Len(tbl) |->
        [key |-> tbl[i].dept, cat |-> weekly_categorize_performance(tbl[i].pct),
         val |-> tbl[i].name]]

\* aggfunc='count': the rows of the group (k, c) whose value is not null
CountOf(data, k, c) ==
    Cardinality({i \in 1..Len(data) :
                    data[i].key = k /\ data[i].cat = c /\ data[i].val # NA})

\* pd.pivot_table(df, index, columns, values, aggfunc='count', fill_value=0):
\* one group per (index, columns) pair of a row where both are not null, keys
\* sorted, absent pairs filled with 0
pivot_table(data) ==
    LET grouped == {i \in 1..Len(data) : data[i].key # NA /\ data[i].cat # NA}
        keys == {data[i].key : i \in grouped}
        cats == {data[i].cat : i \in grouped}
    IN  [index |-> Sorted(keys),
         columns |-> Sorted(cats),
         val |-> [k \in keys |-> [c \in cats |-> CountOf(data, k, c)]]]

\* the rows pandas keeps for the margins: dropna removes every row with a null
\* in the index, columns or values column
Complete(data) ==
    {i \in 1..Len(data) : data[i].key # NA /\ data[i].cat # NA /\ data[i].val # NA}

\* margins=True, margins_name="Grand Total": the margins are counted on the
\* complete rows; the column margin is aligned on the index, so a key without
\* a complete row gets NaN
add_margins(pivot, data) ==
    LET complete == Complete(data)
        keys == Range(pivot.index)
        cats == Range(pivot.columns)
        ofKey(k) == Cardinality({i \in complete : data[i].key = k})
        ofCat(c) == Cardinality({i \in complete : data[i].cat = c})
    IN  [index |-> Append(pivot.index, GrandTotal),
         columns |-> Append(pivot.columns, GrandTotal),
         val |-> [k \in keys \cup {GrandTotal} |->
                    [c \in cats \cup {GrandTotal} |->
                        IF k = GrandTotal /\ c = GrandTotal THEN Cardinality(complete)
                        ELSE IF k = GrandTotal THEN ofCat(c)
                        ELSE IF c = GrandTotal
                             THEN (IF ofKey(k) = 0 THEN NaN ELSE ofKey(k))
                        ELSE pivot.val[k][c]]]]

\* pivot_df.reindex(columns=order, fill_value=0)
reindex_columns(pivot, order) ==
    [index |-> pivot.index,
     columns |-> order,
     val |-> [k \in Range(pivot.index) |->
                [c \in Range(order) |->
                    IF c \in Range(pivot.columns) THEN pivot.val[k][c] ELSE 0]]]

\* pivot_df['Grand Total'] = pivot_df.sum(axis=1)
add_total_column(pivot) ==
    [index |-> pivot.index,
     columns |-> Append(pivot.columns, GrandTotal),
     val |-> [k \in Range(pivot.index) |->
                [c \in Range(pivot.columns) \cup {GrandTotal} |->
                    IF c = GrandTotal THEN SumRow(pivot.val, k, pivot.columns)
                    ELSE pivot.val[k][c]]]]

\* pivot_df.loc['Grand Total'] = pivot_df.sum()
add_total_row(pivot) ==
    [index |-> Append(pivot.index, GrandTotal),
     columns |-> pivot.columns,
     val |-> [k \in Range(pivot.index) \cup {GrandTotal} |->
                [c \in Range(pivot.columns) |->
                    IF k = GrandTotal THEN SumColumn(pivot.val, pivot.index, c)
                    ELSE pivot.val[k][c]]]]

\* pivot_df[final_cols]: the same cells with the columns in another order
select_columns(pivot, cols) ==
    [index |-> pivot.index,
     columns |-> cols,
     val |-> [k \in Range(pivot.index) |-> [c \in Range(cols) |-> pivot.val[k][c]]]]

----------------------------------------------------------------------------
(* The pivots of the three generators.                                     *)

\* category_order of performance.py
PerformanceOrder ==
    <<"Good", "Satisfactory", "Need Attention", "Intervention", "Not Attended">>

\* category_order of parul_weekly.py
WeeklyCategoryOrder ==
    <<"Good (75%+)", "Satisfactory (50% - 75%)", "Needs Attention (25% - 50%)",
      "Intervention (0% - 25%)", "Not Started">>

\* status_order of parul_weekly.py
WeeklyStatusOrder == <<"Completed", "Not Started">>

WithoutTotal(cols) ==
    LET Kept(c) == c # GrandTotal IN SelectSeq(cols, Kept)

\* sorted(cols, key=lambda x: order.index(x) if x in order else 999): a stable
\* sort, the columns outside order keep their place after the others
SortedByOrder(cols, order) ==
    LET Listed(c) == c \in Range(cols)
        Unlisted(c) == c \notin Range(order)
    IN  SelectSeq(order, Listed) \o SelectSeq(cols, Unlisted)

\* openpyxl Reference(ws, min_col, min_row, max_col, max_row): rows and
\* columns of the sheet, counted from 1; row 1 holds the headers, column 1
\* the index of the pivot
Reference(min_col, min_row, max_col, max_row) ==
    [min_col |-> min_col, min_row |-> min_row, max_col |-> max_col, max_row |-> max_row]

\* the data and category ranges of the chart of a sheet: participation.py
\* _add_participation_chart (lines 367-378), performance.py
\* _add_performance_chart, parul_weekly.py _add_performance_chart (lines
\* 406-430) and _add_participation_chart (lines 703-730)
add_chart(name, pivot) ==
    LET num_rows == Len(pivot.index)
        num_cols == Len(pivot.columns) + 1 IN
    CASE name = "Div Wise Performance Summary" ->
            [data |-> Reference(2, 1, Len(WeeklyCategoryOrder) + 1, num_rows + 1),
             cats |-> Reference(1, 2, 1, num_rows)]
      [] name = "Div Wise Participation Summary" ->
            [data |-> Reference(2, 1, Len(WeeklyStatusOrder) + 1, num_rows),
             cats |-> Reference(1, 2, 1, num_rows - 1)]
      [] OTHER ->
            [data |-> Reference(2, 1, num_cols, num_rows),
             cats |-> Reference(1, 2, 1, num_rows)]

Sheet(name, pivot) ==
    [sheet |-> name, index |-> pivot.index, columns |-> pivot.columns, val |-> pivot.val,
     chart |-> add_chart(name, pivot)]

\* participation.py _create_participation_pivot
create_participation_pivot(tbl) ==
    LET data == StatusData(tbl)
        pivot_df == add_margins(pivot_table(data), data)
        status_cols_sorted == Sorted(Range(WithoutTotal(pivot_df.columns)))
        final_cols ==
            IF GrandTotal \in Range(pivot_df.columns)
            THEN Append(status_cols_sorted, GrandTotal)
            ELSE status_cols_sorted
    IN  select_columns(pivot_df, final_cols)

\* performance.py generate_performance_report: the Performance Summary pivot
create_performance_pivot(tbl) ==
    LET data == PerformanceData(tbl)
        pivot_df == add_margins(pivot_table(data), data)
        category_cols_sorted == SortedByOrder(WithoutTotal(pivot_df.columns), PerformanceOrder)
        final_cols ==
            IF GrandTotal \in Range(pivot_df.columns)
            THEN Append(category_cols_sorted, GrandTotal)
            ELSE category_cols_sorted
    IN  select_columns(pivot_df, final_cols)

\* parul_weekly.py _add_div_wise_performance_summary
div_wise_performance_pivot(tbl) ==
    add_total_row(reindex_columns(pivot_table(WeeklyData(tbl)), WeeklyCategoryOrder))

\* parul_weekly.py _add_div_wise_participation_summary
div_wise_participation_pivot(tbl) ==
    add_total_row(add_total_column(
        reindex_columns(pivot_table(StatusData(tbl)), WeeklyStatusOrder)))


\* the tables of the model: pivot_table and its margins are built from at least
\* one row with a department, a status and a count value
Groupable(tbl) ==
    \E i \in 1..Len(tbl) : tbl[i].dept # NA /\ tbl[i].status # NA /\ tbl[i].name # NA

Init ==
    /\ pc = "start"
    /\ report \in Reports
    /\ table \in {t \in Tables : Groupable(t)}
    /\ pivots = <<>>
    /\ cell = NullCell
    /\ labels = NoLabels
    /\ file = <<>>
    /\ peek = FALSE
    /\ tried = <<>>
    /\ loaded = "none"
    /\ FrontIdle

\* generate_participation_report
GenerateParticipation ==
    /\ pc = "start"
    /\ report = "participation"
    /\ pivots' = <<Sheet("Participation Summary", create_participation_pivot(table))>>
    /\ pc' = "generated"
    /\ UNCHANGED <<table, report, cell, labels>>
    /\ UNCHANGED IdleLoad
    /\ UNCHANGED IdleFront

\* generate_performance_report: the participation report first, then the
\* Performance Summary sheet is added to its workbook
GeneratePerformance ==
    /\ pc = "start"
    /\ report = "performance"
    /\ pivots' = <<Sheet("Participation Summary", create_participation_pivot(table)),
                   Sheet("Performance Summary", create_performance_pivot(table))>>
    /\ pc' = "generated"
    /\ UNCHANGED <<table, report, cell, labels>>
    /\ UNCHANGED IdleLoad
    /\ UNCHANGED IdleFront

\* generate_parul_weekly_report
GenerateWeekly ==
    /\ pc = "start"
    /\ report = "weekly"
    /\ pivots' = <<Sheet("Div Wise Performance Summary", div_wise_performance_pivot(table)),
                   Sheet("Div Wise Participation Summary", div_wise_participation_pivot(table))>>
    /\ pc' = "generated"
    /\ UNCHANGED <<table, report, cell, labels>>
    /\ UNCHANGED IdleLoad
    /\ UNCHANGED IdleFront

Next == GenerateParticipation \/ GeneratePerformance \/ GenerateWeekly

Spec == Init /\ [][Next]_vars

----------------------------------------------------------------------------
(* Properties of the pivots (Spec).                                        *)

\* the classified data a sheet's pivot was built from
DataOf(sheet) ==
    CASE sheet = "Performance Summary" -> PerformanceData(table)
      [] sheet = "Div Wise Performance Summary" -> WeeklyData(table)
      [] OTHER -> StatusData(table)

HasFixedOrder(sheet) ==
    sheet \in {"Performance Summary", "Div Wise Performance Summary",
               "Div Wise Participation Summary"}

FixedOrderOf(sheet) ==
    CASE sheet = "Performance Summary" -> PerformanceOrder
      [] sheet = "Div Wise Performance Summary" -> WeeklyCategoryOrder
      [] OTHER -> WeeklyStatusOrder

\* the rows with a department and a category
Contributing(data) ==
    {i \in 1..Len(data) : data[i].key # NA /\ data[i].cat # NA}

\* the categories observed in the contributing rows
Observed(data) == {data[i].cat : i \in Contributing(data)}

\* C1: in every pivot each cell of the Grand Total row is the sum of its
\* column over the department rows, and each cell of the Grand Total column
\* is the sum of its row over the category columns.
C1_GrandTotalsAreSums ==
    \A n \in 1..Len(pivots) :
        LET p == pivots[n]
            depts == WithoutTotal(p.index)
            cats == WithoutTotal(p.columns)
        IN  /\ GrandTotal \in Range(p.index) =>
                  \A c \in Range(cats) :
                      p.val[GrandTotal][c] = SumColumn(p.val, depts, c)
            /\ GrandTotal \in Range(p.columns) =>
                  \A k \in Range(depts) :
                      p.val[k][GrandTotal] = SumRow(p.val, k, cats)

\* the corner cell, or the sum of the Grand Total row where there is no corner
GrandTotalOf(p) ==
    IF GrandTotal \in Range(p.columns)
    THEN p.val[GrandTotal][GrandTotal]
    ELSE SumRow(p.val, GrandTotal, p.columns)

\* C2: the grand total of every pivot is the number of rows of the classified
\* table with a department and a category, whatever the category label and
\* the cell of the count column.
C2_GrandTotalCountsRows ==
    \A n \in 1..Len(pivots) :
        GrandTotalOf(pivots[n]) = Cardinality(Contributing(DataOf(pivots[n].sheet)))

\* C3: every pivot has Grand Total as its last row and as its last column.
C3_GrandTotalLast ==
    \A n \in 1..Len(pivots) :
        LET p == pivots[n] IN
        /\ p.index[Len(p.index)] = GrandTotal
        /\ p.columns[Len(p.columns)] = GrandTotal

\* C4: a pivot built with a fixed category order has every category of the
\* order as a column, in that order, with 0 where the category was not
\* observed for the department.
C4_FixedOrderColumns ==
    \A n \in 1..Len(pivots) :
        LET p == pivots[n]
            order == FixedOrderOf(p.sheet)
            data == DataOf(p.sheet)
        IN  HasFixedOrder(p.sheet) =>
                /\ Len(p.columns) >= Len(order)
                /\ SubSeq(p.columns, 1, Len(order)) = order
                /\ \A k \in Range(WithoutTotal(p.index)) : \A c \in Range(order) :
                       (~\E i \in Contributing(data) : data[i].key = k /\ data[i].cat = c)
                           => p.val[k][c] = 0

\* C5: a pivot built with a fixed category order keeps every observed category
\* that is not in the order: it is a column placed after the columns of the
\* order, those extra columns in alphabetical order.
C5_ExtraCategoriesKept ==
    \A n \in 1..Len(pivots) :
        LET p == pivots[n]
            order == FixedOrderOf(p.sheet)
            extras == Observed(DataOf(p.sheet)) \ Range(order)
            Extra(c) == c \in extras
        IN  HasFixedOrder(p.sheet) =>
                /\ extras \subseteq Range(p.columns)
                /\ SelectSeq(p.columns, Extra) = Sorted(extras)
                /\ \A i \in 1..Len(p.columns) : \A j \in 1..Len(p.columns) :
                       (p.columns[i] \in extras /\ p.columns[j] \in Range(order)) => j < i

\* the rows of a range
RowsOf(ref) == ref.min_row..ref.max_row

====
